---- MODULE Spec2Model ----
(***************************************************************************)
(* A model of the line-stream parsers of the Jersey City council meeting   *)
(* tools: parse_agenda.py (agenda sections and items), parse_minutes.py    *)
(* (minutes items and vote breakdowns).  Text is modelled as text: lines   *)
(* are strings, and the regular expressions of the source are kept as      *)
(* syntax trees that a backtracking matcher interprets with the priorities *)
(* of Python's re module (leftmost, greedy, alternatives in order).        *)
(***************************************************************************)
EXTENDS Integers, Sequences, FiniteSets, TLC

(***************************************************************************)
(* Characters and strings.                                                 *)
(***************************************************************************)
Digit == {"0", "1", "2", "3", "4", "5", "6", "7", "8", "9"}
Upper == {"A", "B", "C", "D", "E", "F", "G", "H", "I", "J", "K", "L", "M",
          "N", "O", "P", "Q", "R", "S", "T", "U", "V", "W", "X", "Y", "Z"}
Lower == {"a", "b", "c", "d", "e", "f", "g", "h", "i", "j", "k", "l", "m",
          "n", "o", "p", "q", "r", "s", "t", "u", "v", "w", "x", "y", "z"}
\* \s of Python's re on str patterns, restricted to the characters a TLA+
\* string can hold.
Space == {" ", "\t", "\n", "\r", "\f"}

UpperSeq == <<"A", "B", "C", "D", "E", "F", "G", "H", "I", "J", "K", "L", "M",
              "N", "O", "P", "Q", "R", "S", "T", "U", "V", "W", "X", "Y", "Z">>
LowerSeq == <<"a", "b", "c", "d", "e", "f", "g", "h", "i", "j", "k", "l", "m",
              "n", "o", "p", "q", "r", "s", "t", "u", "v", "w", "x", "y", "z">>

LowerOf == [c \in Upper |-> LowerSeq[CHOOSE k \in 1..26 : UpperSeq[k] = c]]
UpperOf == [c \in Lower |-> UpperSeq[CHOOSE k \in 1..26 : LowerSeq[k] = c]]

\* str.lower() and str.upper() of one character
LowerCh(c) == IF c \in Upper THEN LowerOf[c] ELSE c
UpperCh(c) == IF c \in Lower THEN UpperOf[c] ELSE c

At(s, p) == SubSeq(s, p, p)

RECURSIVE MapStr(_, _, _)
MapStr(s, p, up) ==
    IF p > Len(s) THEN ""
    ELSE (IF up THEN UpperCh(At(s, p)) ELSE LowerCh(At(s, p))) \o MapStr(s, p + 1, up)

\* str.lower()
StrLower(s) == MapStr(s, 1, FALSE)

\* str.capitalize(): first character upper-cased, the rest lower-cased
StrCapitalize(s) ==
    IF s = "" THEN "" ELSE UpperCh(At(s, 1)) \o MapStr(s, 2, FALSE)

RECURSIVE LStripFrom(_, _, _)
LStripFrom(s, p, set) ==
    IF p <= Len(s) /\ At(s, p) \in set THEN LStripFrom(s, p + 1, set) ELSE p
RECURSIVE RStripTo(_, _, _)
RStripTo(s, q, set) ==
    IF q >= 1 /\ At(s, q) \in set THEN RStripTo(s, q - 1, set) ELSE q

\* str.strip(): whitespace removed at both ends
StrStrip(s) == SubSeq(s, LStripFrom(s, 1, Space), RStripTo(s, Len(s), Space))
\* str.rstrip(chars)
StrRStrip(s, set) == SubSeq(s, 1, RStripTo(s, Len(s), set))

\* str.startswith(prefix)
StartsWith(s, prefix) ==
    Len(prefix) <= Len(s) /\ SubSeq(s, 1, Len(prefix)) = prefix

\* a test that finds no substring
ContainsNever(s, sub) == FALSE

\* the `in` operator on strings: sub occurs somewhere in s
Contains(s, sub) ==
    \E p \in 1..(Len(s) - Len(sub) + 1) : SubSeq(s, p, p + Len(sub) - 1) = sub

\* the index of the first occurrence of character c at or after p, 0 if none
RECURSIVE FindCh(_, _, _)
FindCh(s, c, p) ==
    IF p > Len(s) THEN 0 ELSE IF At(s, p) = c THEN p ELSE FindCh(s, c, p + 1)

DigitSeq == <<"0", "1", "2", "3", "4", "5", "6", "7", "8", "9">>
DigitVal(c) == (CHOOSE k \in 1..10 : DigitSeq[k] = c) - 1

\* int(s) for a string of decimal digits
RECURSIVE IntOfFrom(_, _, _)
IntOfFrom(s, p, acc) ==
    IF p > Len(s) THEN acc ELSE IntOfFrom(s, p + 1, acc * 10 + DigitVal(At(s, p)))
IntOf(s) == IntOfFrom(s, 1, 0)

\* str(n) for n >= 0
RECURSIVE StrOfInt(_)
StrOfInt(n) ==
    IF n < 10 THEN DigitSeq[n + 1] ELSE StrOfInt(n \div 10) \o DigitSeq[(n % 10) + 1]

\* " ".join(parts)
RECURSIVE JoinFrom(_, _, _)
JoinFrom(parts, k, sep) ==
    IF k > Len(parts) THEN ""
    ELSE IF k = Len(parts) THEN parts[k]
    ELSE parts[k] \o sep \o JoinFrom(parts, k + 1, sep)
Join(parts, sep) == JoinFrom(parts, 1, sep)

\* text.split("\n")
RECURSIVE SplitLinesFrom(_, _)
SplitLinesFrom(s, p) ==
    LET q == FindCh(s, "\n", p) IN
    IF q = 0 THEN <<SubSeq(s, p, Len(s))>>
    ELSE <<SubSeq(s, p, q - 1)>> \o SplitLinesFrom(s, q + 1)
SplitLines(s) == SplitLinesFrom(s, 1)

(***************************************************************************)
(* Regular expressions.  A pattern is a tree:                              *)
(*   Cls(S)        one character of S            [abc], \d, \s             *)
(*   NCls(S)       one character not in S        . is NCls({"\n"})         *)
(*   Lit(w)        the characters of w in order                            *)
(*   ILit(w)       the same, ignoring case (re.IGNORECASE)                 *)
(*   Cat(<<..>>)   concatenation                                           *)
(*   Alt(<<..>>)   alternatives, tried left to right                       *)
(*   Rep(r, m, n)  greedy repetition {m,n}; n = Inf for * and +            *)
(*   Lazy(r, m, n) non-greedy repetition                                   *)
(*   Grp(k, r)     capturing group number k                                *)
(*   Bol, Eol      ^ and $                                                 *)
(* ReRun matches a list of patterns one after the other: the list is the   *)
(* continuation of a backtracking matcher, and among the ways to match it  *)
(* takes the one Python's re takes: the first alternative, the longest     *)
(* greedy and the shortest lazy repetition after which the rest matches.   *)
(***************************************************************************)
Inf == 1000000
MaxGroups == 4

Cls(S) == [op |-> "cls", set |-> S]
NCls(S) == [op |-> "ncls", set |-> S]
Lit(w) == [op |-> "lit", w |-> w, ic |-> FALSE]
ILit(w) == [op |-> "lit", w |-> StrLower(w), ic |-> TRUE]
Cat(subs) == [op |-> "cat", subs |-> subs]
Alt(subs) == [op |-> "alt", subs |-> subs]
Rep(r, m, n) == [op |-> "rep", sub |-> r, min |-> m, max |-> n, lazy |-> FALSE]
Lazy(r, m, n) == [op |-> "rep", sub |-> r, min |-> m, max |-> n, lazy |-> TRUE]
Grp(k, r) == [op |-> "grp", id |-> k, sub |-> r]
Bol == [op |-> "bol"]
Eol == [op |-> "eol"]
Opt(r) == Rep(r, 0, 1)
Star(r) == Rep(r, 0, Inf)
Plus(r) == Rep(r, 1, Inf)
AnyCh == NCls({"\n"})

ReFail == [ok |-> FALSE, s |-> 0, e |-> 0, g |-> <<>>]
NoCaps == [k \in 1..MaxGroups |-> <<0, 0>>]

\* whether the characters of w from the k-th on stand in s from position p on
RECURSIVE LitAt(_, _, _, _, _)
LitAt(s, p, w, k, ic) ==
    IF k > Len(w) THEN TRUE
    ELSE IF p > Len(s) THEN FALSE
    ELSE IF (IF ic THEN LowerCh(At(s, p)) ELSE At(s, p)) # At(w, k) THEN FALSE
    ELSE LitAt(s, p + 1, w, k + 1, ic)

\* how many characters of s from position p on, at most cap, the one-character
\* pattern c matches
RECURSIVE RunLen(_, _, _, _)
RunLen(s, p, c, cap) ==
    IF cap = 0 \/ p > Len(s) THEN 0
    ELSE IF (At(s, p) \in c.set) # (c.op = "cls") THEN 0
    ELSE 1 + RunLen(s, p + 1, c, cap - 1)

\* r when it is a match, otherwise alt; r is computed once
OrElse(r, alt) == CHOOSE y \in {IF v.ok THEN v ELSE alt : v \in {r}} : TRUE

RECURSIVE ReRun(_, _, _, _, _)
ReRun(todo, s, p, g, ml) ==
    IF todo = <<>> THEN [ok |-> TRUE, s |-> 0, e |-> p, g |-> g]
    ELSE
      LET n == Head(todo)
          rest == Tail(todo)
      IN
      CASE n.op = "cls" ->
             IF p <= Len(s) /\ At(s, p) \in n.set
             THEN ReRun(rest, s, p + 1, g, ml) ELSE ReFail
        [] n.op = "ncls" ->
             IF p <= Len(s) /\ At(s, p) \notin n.set
             THEN ReRun(rest, s, p + 1, g, ml) ELSE ReFail
        [] n.op = "lit" ->
             IF LitAt(s, p, n.w, 1, n.ic)
             THEN ReRun(rest, s, p + Len(n.w), g, ml) ELSE ReFail
        [] n.op = "cat" -> ReRun(n.subs \o rest, s, p, g, ml)
        [] n.op = "alt" ->
             IF n.subs = <<>> THEN ReFail
             ELSE OrElse(ReRun(<<Head(n.subs)>> \o rest, s, p, g, ml),
                         ReRun(<<Alt(Tail(n.subs))>> \o rest, s, p, g, ml))
        [] n.op = "rep" /\ n.sub.op \in {"cls", "ncls"} ->
             \* a repeated character class: of the counts k that the run of
             \* matching characters allows and after which the rest matches,
             \* the largest (greedy) or the smallest (lazy)
             LET run == RunLen(s, p, n.sub, IF n.max = Inf THEN Len(s) ELSE n.max)
                 res == {x \in {[k |-> k, r |-> ReRun(rest, s, p + k, g, ml)]
                                 : k \in n.min..run} : x.r.ok}
             IN IF res = {} THEN ReFail
                ELSE (CHOOSE x \in res :
                        \A y \in res : IF n.lazy THEN x.k <= y.k ELSE x.k >= y.k).r
        [] n.op = "rep" /\ n.sub.op \notin {"cls", "ncls"} ->
             LET more == ReRun(<<n.sub,
                                 [n EXCEPT !.min = IF n.min > 0 THEN n.min - 1 ELSE 0,
                                           !.max = IF n.max = Inf THEN Inf ELSE n.max - 1]>>
                               \o rest, s, p, g, ml)
             IN
             IF n.min > 0 THEN more
             ELSE IF n.max = 0 THEN ReRun(rest, s, p, g, ml)
             ELSE IF n.lazy
                  THEN OrElse(ReRun(rest, s, p, g, ml), more)
                  ELSE OrElse(more, ReRun(rest, s, p, g, ml))
        [] n.op = "grp" ->
             ReRun(<<[op |-> "gs", id |-> n.id], n.sub, [op |-> "ge", id |-> n.id]>>
                   \o rest, s, p, g, ml)
        [] n.op = "gs" ->
             ReRun(rest, s, p, [g EXCEPT ![n.id] = <<p, 0>>], ml)
        [] n.op = "ge" ->
             ReRun(rest, s, p, [g EXCEPT ![n.id] = <<g[n.id][1], p>>], ml)
        [] n.op = "bol" ->
             IF p = 1 \/ (ml /\ p > 1 /\ At(s, p - 1) = "\n")
             THEN ReRun(rest, s, p, g, ml) ELSE ReFail
        [] n.op = "eol" ->
             IF p = Len(s) + 1 \/ (p = Len(s) /\ At(s, p) = "\n")
                \/ (ml /\ p <= Len(s) /\ At(s, p) = "\n")
             THEN ReRun(rest, s, p, g, ml) ELSE ReFail

\* A match as the callers see it: ok, the span [s, e) and the groups' spans
\* (a group that took no part has e = 0).
ReAt(re, s, p, ml) ==
    CHOOSE y \in {IF r.ok THEN [r EXCEPT !.s = p] ELSE ReFail
                  : r \in {ReRun(<<re>>, s, p, NoCaps, ml)}} : TRUE

\* re.match(re, s)
ReMatch(re, s) == ReAt(re, s, 1, FALSE)

\* re.search(re, s), from position p on: the match at the leftmost position
\* that has one, looked for four positions at a time
RECURSIVE ReSearchFrom(_, _, _, _)
ReSearchFrom(re, s, p, ml) ==
    IF p > Len(s) + 1 THEN ReFail
    ELSE LET last == IF p + 3 < Len(s) + 1 THEN p + 3 ELSE Len(s) + 1
             found == {r \in {ReAt(re, s, q, ml) : q \in p..last} : r.ok}
         IN IF found = {} THEN ReSearchFrom(re, s, last + 1, ml)
            ELSE CHOOSE r \in found : \A o \in found : r.s <= o.s
ReSearch(re, s) == ReSearchFrom(re, s, 1, FALSE)

\* m.group(k); None is modelled as "" where the callers only test truth
Group(s, m, k) ==
    IF m.g[k][2] = 0 THEN "" ELSE SubSeq(s, m.g[k][1], m.g[k][2] - 1)

\* re.sub(re, repl, s) where repl is  before + \1 + after  (or just `before`
\* when withGroup is FALSE).  Matches are found left to right and do not
\* overlap; none of the patterns used with it matches the empty string.
RECURSIVE ReSubFrom(_, _, _, _, _, _)
ReSubFrom(re, s, p, before, withGroup, after) ==
    CHOOSE y \in
      {IF ~m.ok \/ m.e = m.s THEN SubSeq(s, p, Len(s))
       ELSE SubSeq(s, p, m.s - 1)
            \o before \o (IF withGroup THEN Group(s, m, 1) ELSE "") \o after
            \o ReSubFrom(re, s, m.e, before, withGroup, after)
       : m \in {ReSearchFrom(re, s, p, FALSE)}} : TRUE
ReSub(re, repl, s) == ReSubFrom(re, s, 1, repl, FALSE, "")

\* Python's None and a present value
None == <<>>
Some(v) == <<v>>

\* s.split(c) for a one-character separator
RECURSIVE SplitOnFrom(_, _, _)
SplitOnFrom(s, c, p) ==
    LET q == FindCh(s, c, p) IN
    IF q = 0 THEN <<SubSeq(s, p, Len(s))>>
    ELSE <<SubSeq(s, p, q - 1)>> \o SplitOnFrom(s, c, q + 1)
SplitOn(s, c) == SplitOnFrom(s, c, 1)

\* whether int(s) returns for a piece of a tally (decimal digits); it raises
\* ValueError on the empty string and on anything that is not a number
IsIntStr(s) == s # "" /\ \A p \in 1..Len(s) : At(s, p) \in Digit

(***************************************************************************)
(* parse_minutes.py: the vote breakdown.                                   *)
(***************************************************************************)
DEFAULT_MEMBERS == <<"Ridley", "Lavarro", "Griffin", "Singh",
                     "Brooks", "Zuppa", "Ephros", "Little", "Gilmore">>

\* a reading of the tally that drops the abstentions
TallyOfTwo(tally_str) ==
    LET parts == SplitOn(StrStrip(tally_str), "-") IN
    [raises |-> FALSE, ayes |-> IntOf(parts[1]), nays |-> IntOf(parts[2]),
     abstentions |-> 0]

\* a tally that counts the ayes only
TallyOfAyes(tally_str) ==
    LET parts == SplitOn(StrStrip(tally_str), "-") IN
    [raises |-> FALSE, ayes |-> IntOf(parts[1]), nays |-> 0, abstentions |-> 0]

\* parse_vote_tally: (ayes, nays, abstentions); `raises` when int() would
parse_vote_tally(tally_str) ==
    LET parts == SplitOn(StrStrip(tally_str), "-") IN
    [raises |-> \E k \in 1..Len(parts) : k <= 3 /\ ~IsIntStr(parts[k]),
     ayes |-> IF Len(parts) > 0 /\ IsIntStr(parts[1]) THEN IntOf(parts[1]) ELSE 0,
     nays |-> IF Len(parts) > 1 /\ IsIntStr(parts[2]) THEN IntOf(parts[2]) ELSE 0,
     abstentions |-> IF Len(parts) > 2 /\ IsIntStr(parts[3]) THEN IntOf(parts[3]) ELSE 0]

\* (?:Councilperson|Council\s+president\s+pro\s+temp)\s+([A-Z][a-z]+)
\* with re.IGNORECASE, under which [A-Z] and [a-z] both match any letter
named_member_re ==
    Cat(<<Alt(<<ILit("Councilperson"),
                Cat(<<ILit("Council"), Plus(Cls(Space)), ILit("president"),
                      Plus(Cls(Space)), ILit("pro"), Plus(Cls(Space)), ILit("temp")>>)>>),
          Plus(Cls(Space)),
          Grp(1, Cat(<<Cls(Upper \cup Lower), Plus(Cls(Upper \cup Lower))>>))>>)

\* the roster member a captured name stands for, or the captured name itself
\* a match that keeps the spelling of the detail
KeepSpelling(name, roster, k) == name

RECURSIVE RosterMatch(_, _, _)
RosterMatch(name, roster, k) ==
    IF k > Len(roster) THEN name
    ELSE IF StrLower(roster[k]) = StrLower(name) THEN roster[k]
    ELSE RosterMatch(name, roster, k + 1)

RECURSIVE NamedFrom(_, _, _)
NamedFrom(text, roster, p) ==
    LET m == ReSearchFrom(named_member_re, text, p, FALSE) IN
    IF ~m.ok THEN <<>>
    ELSE <<RosterMatch(Group(text, m, 1), roster, 1)>> \o NamedFrom(text, roster, m.e)

extract_named_members(text, roster) == NamedFrom(text, roster, 1)

SeqRange(q) == {q[k] : k \in 1..Len(q)}

\* a reconstruction that forgets to leave out the named members
RemainingAll(roster, accounted, k) == roster

\* [m for m in roster if m not in accounted]
RECURSIVE Remaining(_, _, _)
Remaining(roster, accounted, k) ==
    IF k > Len(roster) THEN <<>>
    ELSE (IF roster[k] \in accounted THEN <<>> ELSE <<roster[k]>>)
         \o Remaining(roster, accounted, k + 1)

\* a slice that never gives anything
DropAll(q, n) == <<>>

\* list[:n] and list[n:] for n >= 0
Take(q, n) == SubSeq(q, 1, IF n < Len(q) THEN n ELSE Len(q))
Drop(q, n) == SubSeq(q, (IF n < Len(q) THEN n ELSE Len(q)) + 1, Len(q))

EmptyVotes == [aye |-> <<>>, nay |-> <<>>, abstain |-> <<>>, absent |-> <<>>]

build_vote_breakdown(result, tally_str, detail_text, roster) ==
    LET t == parse_vote_tally(tally_str)
        detail_lower == StrLower(detail_text)
        named == IF detail_text # "" THEN extract_named_members(detail_text, roster)
                 ELSE <<>>
        named_nay == IF detail_text # "" /\ Contains(detail_lower, "nay")
                     THEN named ELSE <<>>
        named_abstain == IF detail_text # "" /\ ~Contains(detail_lower, "nay")
                            /\ Contains(detail_lower, "abstain")
                         THEN named ELSE <<>>
        accounted == SeqRange(named_nay) \cup SeqRange(named_abstain)
        total_present == t.ayes + t.nays + t.abstentions
        total_roster == Len(roster)
        absent_count == total_roster - total_present
        remaining == Remaining(roster, accounted, 1)
    IN
    IF absent_count > 0 /\ Len(remaining) > t.ayes
    THEN [aye |-> Take(remaining, t.ayes), nay |-> named_nay,
          abstain |-> named_abstain, absent |-> Drop(remaining, t.ayes)]
    ELSE [aye |-> remaining, nay |-> named_nay,
          abstain |-> named_abstain, absent |-> <<>>]

(***************************************************************************)
(* State.  pc is the position of the program under study; lines, i,        *)
(* current_section, sections and items are the locals of the two scans;    *)
(* roster, tally_str, detail_text, votes and raised are the arguments and  *)
(* the outcome of a call of build_vote_breakdown; log records what the     *)
(* iterations of a scan did, in order; matched holds, for every line, what *)
(* the compiled patterns of the scan give on it; full_text is the text the *)
(* scan has read from its document.                                        *)
(***************************************************************************)
VARIABLES pc, lines, i, current_section, sections, items,
          roster, tally_str, detail_text, votes, raised, log, matched,
          packet, agenda_pages, items_to_split, item_index, manifest_entries,
          total_pages_split, warnings, files, manifest,
          call_number, call_text, call_result,
          full_text

vars == <<pc, lines, i, current_section, sections, items,
          roster, tally_str, detail_text, votes, raised, log, matched,
          packet, agenda_pages, items_to_split, item_index, manifest_entries,
          total_pages_split, warnings, files, manifest,
          call_number, call_text, call_result,
          full_text>>

textVars == <<call_number, call_text, call_result>>

splitVars == <<packet, agenda_pages, items_to_split, item_index, manifest_entries,
               total_pages_split, warnings, files, manifest>>

scanVars == <<lines, i, current_section, sections, items, log, matched>>
callVars == <<roster, tally_str, detail_text, votes, raised>>

(***************************************************************************)
(* build_vote_breakdown, called once on arguments drawn from bounded sets. *)
(***************************************************************************)
MaxRoster == 3
MaxCount == 2
MaxNamed == 2

Rosters == {Take(DEFAULT_MEMBERS, n) : n \in 1..MaxRoster}

\* A-N and A-N-B for small counts, and two tallies with counts of two digits
TallyStrings ==
    {StrOfInt(a) \o "-" \o StrOfInt(n) : a \in 0..MaxCount, n \in 0..MaxCount}
    \cup {StrOfInt(a) \o "-" \o StrOfInt(n) \o "-" \o StrOfInt(b) :
            a \in 0..MaxCount, n \in 0..MaxCount, b \in 0..MaxCount}
    \cup {"10-1", "7-0-12"}

\* persons a detail may name: two members, a member in another letter case,
\* and a person who is not on the roster
NamePool == {"Ridley", "LAVARRO", "Smith"}
DetailEndings == {"", ": nay", ": Abstain", ": abstain, not nay"}

\* "Councilperson A and Council president pro temp B and Councilperson C"
RECURSIVE NameList(_, _)
NameList(names, k) ==
    IF k > Len(names) THEN ""
    ELSE (IF k = 1 THEN "Councilperson "
          ELSE IF k = 2 THEN " and Council president pro temp "
          ELSE " and Councilperson ") \o names[k]
         \o NameList(names, k + 1)

DetailTexts ==
    {NameList(names, 1) \o ending :
        names \in UNION {[1..n -> NamePool] : n \in 0..MaxNamed},
        ending \in DetailEndings}

InitTextIdle ==
    /\ call_number = 0
    /\ call_text = ""
    /\ call_result = None

InitSplitIdle ==
    /\ packet = <<>>
    /\ agenda_pages = 0
    /\ items_to_split = <<>>
    /\ item_index = 0
    /\ manifest_entries = <<>>
    /\ total_pages_split = 0
    /\ warnings = <<>>
    /\ files = <<>>
    /\ manifest = None

InitScanIdle ==
    /\ lines = <<>>
    /\ matched = <<>>
    /\ i = 0
    /\ current_section = None
    /\ sections = <<>>
    /\ items = <<>>
    /\ log = <<>>

InitVote ==
    /\ pc = "call"
    /\ roster \in Rosters
    /\ tally_str \in TallyStrings
    /\ detail_text \in DetailTexts
    /\ votes = None
    /\ raised = FALSE
    /\ InitScanIdle
    /\ InitSplitIdle
    /\ InitTextIdle
    /\ full_text = ""

\* votes = build_vote_breakdown(vote_result, vote_tally, vote_detail, roster)
CallBuildVoteBreakdown ==
    /\ pc = "call"
    /\ IF parse_vote_tally(tally_str).raises
       THEN raised' = TRUE /\ votes' = None
       ELSE /\ raised' = FALSE
            /\ votes' = Some(build_vote_breakdown("Approved", tally_str,
                                                  detail_text, roster))
    /\ pc' = "done"
    /\ UNCHANGED <<roster, tally_str, detail_text>>
    /\ UNCHANGED scanVars
    /\ UNCHANGED splitVars
    /\ UNCHANGED textVars
    /\ UNCHANGED full_text

NextVote == CallBuildVoteBreakdown

SpecVote == InitVote /\ [][NextVote]_vars

\* the counts of the tally string of the call, read digit by digit
TallyA == IntOf(SplitOn(tally_str, "-")[1])
TallyN == IntOf(SplitOn(tally_str, "-")[2])
TallyB == IF Len(SplitOn(tally_str, "-")) > 2 THEN IntOf(SplitOn(tally_str, "-")[3]) ELSE 0

Returned == pc = "done" /\ votes # None
V == votes[1]

\* C1: for every roster, tally and detail, the four returned lists together
\* have as many entries as the roster has members.
C1_TotalEqualsRoster ==
    pc = "done" =>
        /\ votes # None
        /\ Len(V.aye) + Len(V.nay) + Len(V.abstain) + Len(V.absent) = Len(roster)

\* C2 as stated: whenever A + N + B <= |R|, the lists have A ayes, N nays
\* and B abstentions, and the call does not raise.
C2_CountsEqualTally ==
    pc = "done" =>
        /\ ~raised
        /\ votes # None
        /\ TallyA + TallyN + TallyB <= Len(roster) =>
              /\ Len(V.aye) = TallyA
              /\ Len(V.nay) = TallyN
              /\ Len(V.abstain) = TallyB

\* the detail names, as nay voters, exactly N distinct roster members and, as
\* abstainers, exactly B (one of the two kinds at most, as the detail is
\* classified as a whole)
DetailAgreesWithTally ==
    LET named == extract_named_members(detail_text, roster)
        isNay == Contains(StrLower(detail_text), "nay")
        isAbstain == ~isNay /\ Contains(StrLower(detail_text), "abstain")
        classified == IF isNay \/ isAbstain THEN named ELSE <<>>
    IN
    /\ \A k \in 1..Len(classified) : classified[k] \in SeqRange(roster)
    /\ \A j, k \in 1..Len(classified) : j # k => classified[j] # classified[k]
    /\ TallyN = (IF isNay THEN Len(named) ELSE 0)
    /\ TallyB = (IF isAbstain THEN Len(named) ELSE 0)

\* C2 amended: the call never raises, and when A + N + B <= |R| and the
\* detail names exactly N distinct members as nay and B as abstaining, the
\* lists have A ayes, N nays and B abstentions.
C2_CountsEqualTallyWhenNamed ==
    pc = "done" =>
        /\ ~raised
        /\ votes # None
        /\ (TallyA + TallyN + TallyB <= Len(roster) /\ DetailAgreesWithTally) =>
              /\ Len(V.aye) = TallyA
              /\ Len(V.nay) = TallyN
              /\ Len(V.abstain) = TallyB

\* a call with a named nay voter and an absent member, its counts matching
C2_Witness ==
    /\ Returned
    /\ DetailAgreesWithTally
    /\ TallyN = 1
    /\ TallyA >= 1
    /\ TallyA + TallyN + TallyB < Len(roster)
    /\ Len(V.aye) = TallyA
    /\ Len(V.absent) >= 1

\* C17, C18: the detail is classified by the words it contains, whatever the
\* letter case
HasWord(w) ==
    \E p \in 1..(Len(detail_text) - Len(w) + 1) :
        MapStr(SubSeq(detail_text, p, p + Len(w) - 1), 1, FALSE) = w
SaysNay == HasWord("nay")
SaysAbstain == HasWord("abstain")

\* the roster member m is named in the detail
NamedInDetail(m) ==
    \E n \in SeqRange(extract_named_members(detail_text, roster)) :
        StrLower(n) = StrLower(m)

\* the roster members, in roster order, that the detail does not name as nay
\* or abstain
NotNamed(m) == ~((SaysNay \/ SaysAbstain) /\ NamedInDetail(m))
RemainingMembers == SelectSeq(roster, NotNamed)
AbsentCount == Len(roster) - (TallyA + TallyN + TallyB)

\* C17: if absent_count > 0 and there are more remaining members than ayes,
\* aye is the first A remaining members and absent the rest of them, in
\* order; otherwise aye is all the remaining members and absent is empty
C17_AyeAndAbsent ==
    Returned =>
        IF AbsentCount > 0 /\ Len(RemainingMembers) > TallyA
        THEN /\ V.aye = SubSeq(RemainingMembers, 1, TallyA)
             /\ V.absent = SubSeq(RemainingMembers, TallyA + 1, Len(RemainingMembers))
        ELSE /\ V.aye = RemainingMembers
             /\ V.absent = <<>>

\* a call with a named nay voter, one aye and more members remaining than
\* ayes: the first remaining member is the aye, the last one is absent
C17_Witness ==
    /\ Returned
    /\ SaysNay
    /\ \E m \in SeqRange(roster) : NamedInDetail(m)
    /\ AbsentCount > 0
    /\ TallyA = 1
    /\ Len(RemainingMembers) = 2
    /\ V.aye = <<RemainingMembers[1]>>
    /\ V.absent = <<RemainingMembers[2]>>

\* C18: the names extracted from the detail are all nay voters when the
\* detail contains "nay", else all abstainers when it contains "abstain",
\* else they are left out; at most one of nay and abstain is non-empty, and
\* both are empty when the detail is empty
C18_NamesClassifiedTogether ==
    Returned =>
        /\ V.nay = IF SaysNay THEN extract_named_members(detail_text, roster) ELSE <<>>
        /\ V.abstain = IF ~SaysNay /\ SaysAbstain
                       THEN extract_named_members(detail_text, roster) ELSE <<>>
        /\ V.nay = <<>> \/ V.abstain = <<>>
        /\ detail_text = "" => V.nay = <<>> /\ V.abstain = <<>>

\* a call whose detail names two members and holds both words: both are nay
\* voters, none abstains
C18_Witness ==
    /\ Returned
    /\ SaysNay /\ SaysAbstain
    /\ Len(V.nay) = 2
    /\ V.abstain = <<>>

\* the counts a tally string may be written from
TallyCounts == 0..MaxCount \cup {7, 10, 12}

\* C11: the tally string written from the counts A, N (and B) is read back by
\* parse_vote_tally as exactly (A, N, B), B being 0 when the third group is
\* omitted, and reading it does not raise.
C11_TallyRoundTrip ==
    pc = "done" =>
        \A a, n \in TallyCounts :
            /\ tally_str = StrOfInt(a) \o "-" \o StrOfInt(n) =>
                  parse_vote_tally(tally_str) =
                      [raises |-> FALSE, ayes |-> a, nays |-> n, abstentions |-> 0]
            /\ \A b \in TallyCounts :
                  tally_str = StrOfInt(a) \o "-" \o StrOfInt(n) \o "-" \o StrOfInt(b) =>
                      parse_vote_tally(tally_str) =
                          [raises |-> FALSE, ayes |-> a, nays |-> n, abstentions |-> b]

\* C11, its case: a call returned for a tally of three groups with a count of
\* two digits, read back as written
C11_Witness ==
    /\ Returned
    /\ tally_str = StrOfInt(7) \o "-" \o StrOfInt(0) \o "-" \o StrOfInt(12)
    /\ parse_vote_tally(tally_str).abstentions = 12

(***************************************************************************)
(* parse_agenda.py.  Line indices are 1-based here: index k is lines[k-1]  *)
(* of the source, and the scan is over when i > Len(lines).                *)
(***************************************************************************)
D12 == Rep(Cls(Digit), 1, 2)
D13 == Rep(Cls(Digit), 1, 3)
Ws0 == Star(Cls(Space))
Ws1 == Plus(Cls(Space))
ItemNo == Cat(<<D12, Lit("."), D12>>)

\* ^\s*(\d{1,2})\.\s+([A-Z][A-Z\s\-\(\),&]+)
section_re ==
    Cat(<<Bol, Ws0, Grp(1, D12), Lit("."), Ws1,
          Grp(2, Cat(<<Cls(Upper),
                       Plus(Cls(Upper \cup Space \cup {"-", "(", ")", ",", "&"}))>>))>>)

\* ^\s*(\d{1,3})\s*-\s*(\d{1,3})\s+(\d{1,2}\.\d{1,2})\s+(.+)
pattern_a ==
    Cat(<<Bol, Ws0, Grp(1, D13), Ws0, Lit("-"), Ws0, Grp(2, D13), Ws1,
          Grp(3, ItemNo), Ws1, Grp(4, Plus(AnyCh))>>)

\* ^\s*(\d{1,3})\s*-\s*(\d{1,3})\s+(\d{1,2}\.\d{1,2})\s*$
pattern_b_range_item ==
    Cat(<<Bol, Ws0, Grp(1, D13), Ws0, Lit("-"), Ws0, Grp(2, D13), Ws1,
          Grp(3, ItemNo), Ws0, Eol>>)

\* ^\s*(\d{1,3})\s*-\s*(\d{1,3})\s*$
pattern_c_range ==
    Cat(<<Bol, Ws0, Grp(1, D13), Ws0, Lit("-"), Ws0, Grp(2, D13), Ws0, Eol>>)

\* ^\s*(\d{1,2}\.\d{1,2})\s*$
item_number_alone == Cat(<<Bol, Ws0, Grp(1, ItemNo), Ws0, Eol>>)

\* ^\s*(\d{1,2}\.\d{1,2})\s+(.+)
item_with_title == Cat(<<Bol, Ws0, Grp(1, ItemNo), Ws1, Grp(2, Plus(AnyCh))>>)

\* ((?:Ord|Res)\.\s*\d{2}-\d{3})
file_number_re ==
    Grp(1, Cat(<<Alt(<<Lit("Ord"), Lit("Res")>>), Lit("."), Ws0,
                 Rep(Cls(Digit), 2, 2), Lit("-"), Rep(Cls(Digit), 3, 3)>>))

\* a file number kept as it stands in the line
KeepFileNumber(fn) == fn

\* re.sub(r'(Ord|Res)\.\s*', r'\1. ', file_number)
file_number_prefix_re == Cat(<<Grp(1, Alt(<<Lit("Ord"), Lit("Res")>>)), Lit("."), Ws0>>)
NormalizeFileNumber(fn) == ReSubFrom(file_number_prefix_re, fn, 1, "", TRUE, ". ")

\* \s*(?:Ord|Res)\.\s*\d{2}-\d{3}\s*-?\s*Pdf\s*$
title_suffix_re ==
    Cat(<<Ws0, Alt(<<Lit("Ord"), Lit("Res")>>), Lit("."), Ws0,
          Rep(Cls(Digit), 2, 2), Lit("-"), Rep(Cls(Digit), 3, 3), Ws0,
          Opt(Lit("-")), Ws0, Lit("Pdf"), Ws0, Eol>>)

\* \s+
spaces_re == Plus(Cls(Space))

\* what a match gives its caller: whether it matched, and the groups' texts
Groups(s, m) ==
    [ok |-> m.ok, g |-> [k \in 1..MaxGroups |-> IF m.ok THEN Group(s, m, k) ELSE ""]]

\* a classifier that goes by the section's number
ClassifyByNumber(number, title) ==
    IF number = 3 THEN "ordinance_first_reading" ELSE "other"

classify_section(number, title) ==
    LET title_lower == StrStrip(StrLower(title)) IN
    IF Contains(title_lower, "first reading") THEN "ordinance_first_reading"
    ELSE IF Contains(title_lower, "second reading") \/ Contains(title_lower, "hearing")
         THEN "ordinance_second_reading"
    ELSE IF Contains(title_lower, "claims") THEN "claims"
    ELSE IF Contains(title_lower, "resolution") THEN "resolutions"
    ELSE IF Contains(title_lower, "public request") THEN "public_hearing"
    ELSE IF Contains(title_lower, "petition") \/ Contains(title_lower, "communication")
         THEN "petitions_communications"
    ELSE IF Contains(title_lower, "officers") THEN "officers_communications"
    ELSE IF Contains(title_lower, "reports") \/ Contains(title_lower, "directors")
         THEN "reports_of_directors"
    ELSE IF Contains(title_lower, "regular meeting") THEN "regular_meeting"
    ELSE IF Contains(title_lower, "reception") THEN "reception_bid"
    ELSE IF Contains(title_lower, "deferred") \/ Contains(title_lower, "tabled")
         THEN "deferred"
    ELSE IF Contains(title_lower, "adjournment") THEN "adjournment"
    ELSE "other"

item_type_from_section(section_type) ==
    IF Contains(section_type, "ordinance") THEN "ordinance"
    ELSE IF Contains(section_type, "resolution") THEN "resolution"
    ELSE IF Contains(section_type, "claims") THEN "claims"
    ELSE "other"

\* The lines an agenda is made of in this model: two section headers, the
\* five item-header layouts (for sections 3 and 4, one with its page range
\* reversed), text, a file number in source spacing, text that holds a file
\* number, and the blank line.
AgendaLines ==
    {"3. CLAIMS", "4. AB",
     "1 - 2 3.1 T", "9 - 8 4.1", "5 - 6", "3.2", "4.2 T",
     "T", "Ord.26-006", "T Res.  26-007", ""}

\* every pattern applied to every line, once
AgendaMatch ==
    [l \in AgendaLines |->
       [stripped |-> StrStrip(l),
        sm |-> Groups(l, ReMatch(section_re, l)),
        ma |-> Groups(l, ReMatch(pattern_a, l)),
        mb |-> Groups(l, ReMatch(pattern_b_range_item, l)),
        mc |-> Groups(l, ReMatch(pattern_c_range, l)),
        mi |-> Groups(l, ReMatch(item_number_alone, l)),
        mi2 |-> Groups(l, ReMatch(item_with_title, l)),
        \* file_number_re.match(nline), nline the stripped line
        fm_match |-> Groups(StrStrip(l), ReMatch(file_number_re, StrStrip(l))),
        \* file_number_re.search(lines[j])
        fm |-> Groups(l, ReSearch(file_number_re, l))]]

MaxLines == 4

Min(a, b) == IF a < b THEN a ELSE b

Line(k) == matched[k]
SecNum == current_section[1].number

\* an iteration of the main loop, as the log keeps it: the handler, the
\* index it was entered at, the number of the section open at that moment
\* (0 if none), the index of the line holding the item number, the index at
\* which title absorption stopped, the item appended if any, and the index
\* the cursor was left at
Step(op, hdr, stop, item, next) ==
    [op |-> op, at |-> i,
     sec |-> IF current_section = None THEN 0 ELSE current_section[1].number,
     hdr |-> hdr, stop |-> stop, emitted |-> item # None, item |-> item,
     next |-> next]

\* a scan that never appends the open section
KeepSections(secs, open) == secs

\* if current_section: sections.append(current_section)
CloseSection(secs, open) ==
    IF open # None THEN Append(secs, open[1]) ELSE secs

\* a guard that lets every candidate through
PrefixAny(candidate, sec_num) == TRUE

\* candidate_item.startswith(f"{sec_num}.")
PrefixOk(candidate, sec_num) == StartsWith(candidate, StrOfInt(sec_num) \o ".")

\* while i < len(lines) and not lines[i].strip(): i += 1
RECURSIVE SkipBlank(_)
SkipBlank(k) ==
    IF k <= Len(lines) /\ Line(k).stripped = "" THEN SkipBlank(k + 1) ELSE k

\* the test for a new item number inside the title loops: the handlers with a
\* page range test the two patterns together (joint), the others one by one
NewItemAt(L, sec_num, joint) ==
    IF joint
    THEN /\ L.mi.ok \/ L.mi2.ok
         /\ PrefixOk((IF L.mi2.ok THEN L.mi2 ELSE L.mi).g[1], sec_num)
    ELSE \/ L.mi.ok /\ PrefixOk(L.mi.g[1], sec_num)
         \/ L.mi2.ok /\ PrefixOk(L.mi2.g[1], sec_num)

\* the title loop: from line k on, blank lines are passed over and lines are
\* appended to title_parts until a line that ends the title
RECURSIVE AbsorbTitle(_, _, _, _)
AbsorbTitle(k, sec_num, title_parts, joint) ==
    IF k > Len(lines) THEN [stop |-> k, parts |-> title_parts]
    ELSE LET L == Line(k) IN
         IF L.stripped = "" THEN AbsorbTitle(k + 1, sec_num, title_parts, joint)
         ELSE IF \/ L.sm.ok
                 \/ L.ma.ok \/ L.mb.ok \/ L.mc.ok
                 \/ L.fm_match.ok
                 \/ NewItemAt(L, sec_num, joint)
              THEN [stop |-> k, parts |-> title_parts]
              ELSE AbsorbTitle(k + 1, sec_num, Append(title_parts, L.stripped), joint)

\* for j in range(i, min(i + 3, len(lines))): the first j whose line holds a
\* file number, 0 if none
RECURSIVE FindFileNumber(_, _)
FindFileNumber(j, end) ==
    IF j > end THEN 0
    ELSE IF Line(j).fm.ok THEN j ELSE FindFileNumber(j + 1, end)

\* the clean-up of the joined title of an item with a page range: the
\* trailing file reference is cut, the ends stripped, white space collapsed
RangedTitle(joined) ==
    ReSub(spaces_re, " ", StrStrip(ReSub(title_suffix_re, "", joined)))

\* an item whose header carries a page range (patterns A, B and C): the title
\* loop from line `from`, the title clean-up, the file-number look-ahead
RangedItem(page_start, page_end, item_number, first_parts, from) ==
    LET a == AbsorbTitle(from, SecNum, first_parts, TRUE)
        title == RangedTitle(Join(a.parts, " "))
        j == FindFileNumber(a.stop, Min(a.stop + 2, Len(lines)))
    IN [item |-> [item_number |-> item_number,
                  title |-> title,
                  page_start |-> Some(IntOf(page_start)),
                  page_end |-> Some(IntOf(page_end)),
                  file_number |-> IF j = 0 THEN None
                                  ELSE Some(NormalizeFileNumber(Line(j).fm.g[1])),
                  item_type |-> item_type_from_section(current_section[1].type)],
        stop |-> a.stop,
        next |-> IF j = 0 THEN a.stop ELSE j + 1]

\* an item whose header is an item number without page range
PlainItem(item_number, first_parts, from) ==
    LET a == AbsorbTitle(from, SecNum, first_parts, FALSE)
        title == StrStrip(ReSub(spaces_re, " ", Join(a.parts, " ")))
    IN [item |-> [item_number |-> item_number,
                  title |-> title,
                  page_start |-> None,
                  page_end |-> None,
                  file_number |-> None,
                  item_type |-> item_type_from_section(current_section[1].type)],
        stop |-> a.stop,
        next |-> a.stop]

\* a handler that appends its item and leaves the cursor on the item's line
EmitAndStay(op, hdr, r) ==
    /\ current_section' = Some([current_section[1] EXCEPT !.items = Append(@, r.item)])
    /\ i' = hdr
    /\ log' = Append(log, Step(op, hdr, r.stop, Some(r.item), hdr))
    /\ UNCHANGED <<pc, lines, matched, sections, items>>
    /\ UNCHANGED callVars
    /\ UNCHANGED splitVars
    /\ UNCHANGED textVars
    /\ UNCHANGED full_text

\* current_section["items"].append(...); continue
Emit(op, hdr, r) ==
    /\ current_section' = Some([current_section[1] EXCEPT !.items = Append(@, r.item)])
    /\ i' = r.next
    /\ log' = Append(log, Step(op, hdr, r.stop, Some(r.item), r.next))
    /\ UNCHANGED <<pc, lines, matched, sections, items>>
    /\ UNCHANGED callVars
    /\ UNCHANGED splitVars
    /\ UNCHANGED textVars
    /\ UNCHANGED full_text

\* a scan that leaves out one line more than it should
AdvanceTwo(op, next) ==
    /\ i' = next + 1
    /\ log' = Append(log, Step(op, 0, 0, None, next + 1))
    /\ UNCHANGED <<pc, lines, matched, current_section, sections, items>>
    /\ UNCHANGED callVars
    /\ UNCHANGED splitVars
    /\ UNCHANGED textVars
    /\ UNCHANGED full_text

Advance(op, next) ==
    /\ i' = next
    /\ log' = Append(log, Step(op, 0, 0, None, next))
    /\ UNCHANGED <<pc, lines, matched, current_section, sections, items>>
    /\ UNCHANGED callVars
    /\ UNCHANGED splitVars
    /\ UNCHANGED textVars
    /\ UNCHANGED full_text

Scanning == pc = "scan" /\ i <= Len(lines)
InSection == Scanning /\ ~Line(i).sm.ok /\ current_section # None

AcceptsA == Line(i).ma.ok /\ PrefixOk(Line(i).ma.g[3], SecNum)
AcceptsB == Line(i).mb.ok /\ PrefixOk(Line(i).mb.g[3], SecNum)
\* pattern C is reached when neither A nor B accepted the line
ReachesC == ~AcceptsA /\ ~AcceptsB /\ Line(i).mc.ok
\* the next non-blank line after the range
AfterRange == SkipBlank(i + 1)
AcceptsC1 ==
    /\ AfterRange <= Len(lines)
    /\ Line(AfterRange).mi.ok /\ PrefixOk(Line(AfterRange).mi.g[1], SecNum)
AcceptsC2 ==
    /\ AfterRange <= Len(lines)
    /\ ~AcceptsC1
    /\ Line(AfterRange).mi2.ok /\ PrefixOk(Line(AfterRange).mi2.g[1], SecNum)
\* pattern C ended the iteration: an item, or `continue` at the end of input
EndsInC == ReachesC /\ (AfterRange > Len(lines) \/ AcceptsC1 \/ AcceptsC2)
\* the cursor when control reaches the handlers without page range: pattern C
\* has moved it when it gave the range up, while `line` is still the line the
\* iteration started with
Cursor == IF ReachesC THEN AfterRange ELSE i
ReachesPlain == ~AcceptsA /\ ~AcceptsB /\ ~EndsInC
AcceptsAlone == Line(i).mi.ok /\ PrefixOk(Line(i).mi.g[1], SecNum)
AcceptsWithTitle == Line(i).mi2.ok /\ PrefixOk(Line(i).mi2.g[1], SecNum)

\* a section header: the open section is appended, a new one is opened
SectionHeader ==
    /\ Scanning
    /\ Line(i).sm.ok
    /\ LET sec_num == IntOf(Line(i).sm.g[1])
           sec_title == StrRStrip(ReSub(spaces_re, " ", StrStrip(Line(i).sm.g[2])),
                                  {" ", "-", ","})
       IN current_section' = Some([number |-> sec_num,
                                   title |-> sec_title,
                                   type |-> classify_section(sec_num, sec_title),
                                   items |-> <<>>])
    /\ sections' = CloseSection(sections, current_section)
    /\ i' = i + 1
    /\ log' = Append(log, Step("section", 0, 0, None, i + 1))
    /\ UNCHANGED <<pc, lines, matched, items>>
    /\ UNCHANGED callVars
    /\ UNCHANGED splitVars
    /\ UNCHANGED textVars
    /\ UNCHANGED full_text

\* if current_section is None: i += 1
SkipNoSection ==
    /\ Scanning
    /\ ~Line(i).sm.ok
    /\ current_section = None
    /\ Advance("no_section", i + 1)

\* pattern A: range, item number and title on one line
PatternA ==
    /\ InSection
    /\ AcceptsA
    /\ LET ma == Line(i).ma IN
       Emit("pattern_a", i,
            RangedItem(ma.g[1], ma.g[2], ma.g[3], <<StrStrip(ma.g[4])>>, i + 1))

\* pattern B: range and item number on one line, the title below
PatternB ==
    /\ InSection
    /\ ~AcceptsA
    /\ AcceptsB
    /\ LET mb == Line(i).mb IN
       Emit("pattern_b", i, RangedItem(mb.g[1], mb.g[2], mb.g[3], <<>>, i + 1))

\* pattern C: a range alone, the item number on the next non-blank line
PatternCItem ==
    /\ InSection
    /\ ReachesC
    /\ AcceptsC1 \/ AcceptsC2
    /\ LET mc == Line(i).mc
           k == AfterRange
       IN IF AcceptsC1
          THEN Emit("pattern_c", k,
                    RangedItem(mc.g[1], mc.g[2], Line(k).mi.g[1], <<>>, k + 1))
          ELSE Emit("pattern_c", k,
                    RangedItem(mc.g[1], mc.g[2], Line(k).mi2.g[1],
                               <<StrStrip(Line(k).mi2.g[2])>>, k + 1))

\* pattern C at the end of input: if i >= len(lines): continue
PatternCAtEnd ==
    /\ InSection
    /\ ReachesC
    /\ AfterRange > Len(lines)
    /\ Advance("pattern_c", AfterRange)

\* an item number alone on the line
ItemNumberAlone ==
    /\ InSection
    /\ ReachesPlain
    /\ AcceptsAlone
    /\ Emit("item_number_alone", i, PlainItem(Line(i).mi.g[1], <<>>, Cursor + 1))

\* an item number with its title on the line
ItemWithTitle ==
    /\ InSection
    /\ ReachesPlain
    /\ ~AcceptsAlone
    /\ AcceptsWithTitle
    /\ Emit("item_with_title", i,
            PlainItem(Line(i).mi2.g[1], <<StrStrip(Line(i).mi2.g[2])>>, Cursor + 1))

\* pattern C gave the range up: control falls through to the final i += 1
\* with the cursor already on the next non-blank line
PatternCAbandon ==
    /\ InSection
    /\ ReachesC
    /\ ReachesPlain
    /\ ~AcceptsAlone /\ ~AcceptsWithTitle
    /\ Advance("pattern_c", Cursor + 1)

\* no handler accepted the line: i += 1
SkipLine ==
    /\ InSection
    /\ ~ReachesC
    /\ ReachesPlain
    /\ ~AcceptsAlone /\ ~AcceptsWithTitle
    /\ Advance("skip", i + 1)

\* the end of the loop: the last section is appended
Finish ==
    /\ pc = "scan"
    /\ i > Len(lines)
    /\ sections' = CloseSection(sections, current_section)
    /\ pc' = "done"
    /\ log' = Append(log, Step("finish", 0, 0, None, i))
    /\ UNCHANGED <<lines, matched, i, current_section, items>>
    /\ UNCHANGED callVars
    /\ UNCHANGED splitVars
    /\ UNCHANGED textVars
    /\ UNCHANGED full_text

\* full_text += doc[i].get_text("text") + "\n", for one page whose text is
\* the lines of body
FullText(body) == Join(body, "\n") \o "\n"

AgendaTexts == UNION {[1..n -> AgendaLines] : n \in 0..MaxLines}

InitAgenda ==
    /\ pc = "scan"
    /\ \E body \in AgendaTexts :
         LET raw == SplitLines(FullText(body))
         IN /\ full_text = FullText(body)
            /\ lines = raw
            /\ matched = [k \in 1..Len(raw) |-> AgendaMatch[raw[k]]]
    /\ i = 1
    /\ current_section = None
    /\ sections = <<>>
    /\ items = <<>>
    /\ log = <<>>
    /\ roster = <<>> /\ tally_str = "" /\ detail_text = "" /\ votes = None
    /\ raised = FALSE
    /\ InitSplitIdle
    /\ InitTextIdle

NextAgenda ==
    \/ SectionHeader
    \/ SkipNoSection
    \/ PatternA
    \/ PatternB
    \/ PatternCItem
    \/ PatternCAtEnd
    \/ PatternCAbandon
    \/ ItemNumberAlone
    \/ ItemWithTitle
    \/ SkipLine
    \/ Finish

SpecAgenda == InitAgenda /\ [][NextAgenda]_vars

(***************************************************************************)
(* Properties of the agenda scan.                                          *)
(***************************************************************************)
LogEntries == {log[k] : k \in 1..Len(log)}
Emitted == {e \in LogEntries : e.emitted}

\* the digits before the dot of an item number
ItemPrefix(item_number) == SubSeq(item_number, 1, FindCh(item_number, ".", 1) - 1)

\* the item number a line offers in one of the header layouts, "" if none
Candidate(k) ==
    LET L == Line(k) IN
    IF k \notin 1..Len(lines) THEN ""
    ELSE IF L.ma.ok THEN L.ma.g[3]
    ELSE IF L.mb.ok THEN L.mb.g[3]
    ELSE IF L.mi.ok THEN L.mi.g[1]
    ELSE IF L.mi2.ok THEN L.mi2.g[1]
    ELSE ""

\* the sections built so far: those in the output list and the open one
Built ==
    SeqRange(sections) \cup (IF current_section = None THEN {} ELSE {current_section[1]})

\* C4: every item of a section has an item number whose prefix is the
\* section's number, and every iteration that appended an item did so for a
\* header line whose candidate number has the prefix of the section open at
\* that moment: a candidate with another prefix never starts an item.
C4_PrefixGuard ==
    /\ \A sec \in Built : \A k \in 1..Len(sec.items) :
           /\ IsIntStr(ItemPrefix(sec.items[k].item_number))
           /\ IntOf(ItemPrefix(sec.items[k].item_number)) = sec.number
    /\ \A e \in Emitted :
           /\ Candidate(e.hdr) # ""
           /\ e.item[1].item_number = Candidate(e.hdr)
           /\ ItemPrefix(Candidate(e.hdr)) = StrOfInt(e.sec)

\* C4, its case: the scan is over, it has appended an item, and in an open
\* section it came upon a candidate line with another prefix, which started
\* no item.
C4_Witness ==
    /\ pc = "done"
    /\ Emitted # {}
    /\ \E e \in LogEntries :
           /\ e.sec # 0 /\ ~e.emitted
           /\ Candidate(e.at) # ""
           /\ ItemPrefix(Candidate(e.at)) # StrOfInt(e.sec)

\* the iterations that recognized a section header, in order
IsHeaderStep(e) == e.op = "section"
HeaderSteps == SelectSeq(log, IsHeaderStep)

\* the sections are those of the recognized headers, in header order: all of
\* them once the input has ended, all but the open one before
C5_HeaderOrder ==
    /\ Len(sections) = IF pc = "done" \/ HeaderSteps = <<>>
                       THEN Len(HeaderSteps) ELSE Len(HeaderSteps) - 1
    /\ \A k \in 1..Len(sections) :
           LET sm == Line(HeaderSteps[k].at).sm IN
           /\ sections[k].number = IntOf(sm.g[1])
           /\ StartsWith(sm.g[2], sections[k].title)
    /\ \A k \in 1..(Len(HeaderSteps) - 1) : HeaderSteps[k].at < HeaderSteps[k + 1].at

\* a step leaves the output list alone or appends the open section to it, the
\* latter only at a section header or at the end of input; and it leaves the
\* open section alone, opens a new empty one at a header, or appends one item
\* to the open one
C5_AppendOnly ==
    /\ \/ sections' = sections
       \/ /\ current_section # None
          /\ sections' = Append(sections, current_section[1])
          /\ i > Len(lines) \/ Line(i).sm.ok
    /\ \/ current_section' = current_section
       \/ /\ i <= Len(lines) /\ Line(i).sm.ok
          /\ current_section'[1].items = <<>>
       \/ /\ current_section # None
          /\ current_section'[1].items # <<>>
          /\ current_section' =
                 Some([current_section[1] EXCEPT !.items =
                         Append(@, current_section'[1].items[Len(current_section'[1].items)])])

\* C5: each section opened by a recognized header is appended to the output
\* list exactly once, when the next header is recognized or the input ends;
\* the output is in header order; items are appended to the open section
\* only, and a section in the output list never changes.
C5_SectionsAppendedOnce == []C5_HeaderOrder /\ [][C5_AppendOnly]_vars

\* C5, its case: the scan is over with two sections in the output, the first
\* of which received an item before the second header closed it.
C5_Witness ==
    /\ pc = "done"
    /\ Len(sections) >= 2
    /\ sections[1].items # <<>>

\* the canonical form of a file number as it stands in a line: the kind, a
\* period, one space, NN-NNN
Canonical(fn) == SubSeq(fn, 1, 3) \o ". " \o SubSeq(fn, Len(fn) - 5, Len(fn))

\* what the look-ahead after title absorption has to give for an iteration
\* that appended an item
LookaheadDone(e) ==
    LET j == FindFileNumber(e.stop, Min(e.stop + 2, Len(lines))) IN
    IF j # 0
    THEN /\ e.item[1].file_number = Some(Canonical(Line(j).fm.g[1]))
         /\ e.next = j + 1
    ELSE /\ e.item[1].file_number = None
         /\ e.next = e.stop

\* C6: for every accepted item, whatever its header layout, the file number
\* is the normalized first one found in the three lines from the line where
\* title absorption stopped and the cursor is left just past that line, or
\* it is null and the cursor is left where absorption stopped.
C6_LookaheadEveryLayout == \A e \in Emitted : LookaheadDone(e)

\* the index of the nearest non-blank line before k, 0 if none
RECURSIVE PrevNonBlank(_)
PrevNonBlank(k) ==
    IF k <= 1 THEN 0
    ELSE IF Line(k - 1).stripped # "" THEN k - 1 ELSE PrevNonBlank(k - 1)

\* the number of the section whose recognized header is the last one before
\* line k, 0 if none
OpenAt(k) ==
    LET before == {e \in LogEntries : e.op = "section" /\ e.at < k} IN
    IF before = {} THEN 0
    ELSE LET e == CHOOSE x \in before : \A y \in before : y.at <= x.at
         IN IntOf(Line(e.at).sm.g[1])

\* the next non-blank line after line k is an item number, alone or with
\* inline title, whose prefix is the number of the section open at line k
NumberFollows(k) ==
    LET n == SkipBlank(k + 1) IN
    /\ OpenAt(k) # 0
    /\ n <= Len(lines)
    /\ Line(n).mi.ok \/ Line(n).mi2.ok
    /\ ItemPrefix(Candidate(n)) = StrOfInt(OpenAt(k))

\* the items appended with the range of line k, their number on line n
CarriesRange(e, k) ==
    /\ e.item[1].page_start = Some(IntOf(Line(k).mc.g[1]))
    /\ e.item[1].page_end = Some(IntOf(Line(k).mc.g[2]))

\* C7: once the input has been scanned, every line that is a page range
\* alone has yielded an item, carrying the range, if and only if the next
\* non-blank line is an item number with the open section's prefix.
C7_RangeAloneYieldsItem ==
    pc = "done" =>
        \A k \in 1..Len(lines) :
            Line(k).mc.ok =>
                LET yielded == {e \in Emitted : e.hdr = SkipBlank(k + 1)
                                                /\ CarriesRange(e, k)}
                IN (yielded # {}) <=> NumberFollows(k)

\* C8: every item with a page range has 1 <= page_start <= page_end <= 999.
C8_RangeOrdered ==
    \A e \in Emitted :
        e.item[1].page_start # None =>
            /\ 1 <= e.item[1].page_start[1]
            /\ e.item[1].page_start[1] <= e.item[1].page_end[1]
            /\ e.item[1].page_end[1] <= 999

\* the header line k is an item number, alone or with inline title, and the
\* nearest non-blank line before it is not a page range
NumberWithoutRange(k) ==
    /\ Line(k).mi.ok \/ Line(k).mi2.ok
    /\ PrevNonBlank(k) = 0 \/ ~Line(PrevNonBlank(k)).mc.ok

\* C9: page_start and page_end of an item are both null or both non-null,
\* and both null exactly when the header was an item number not preceded by
\* a page range.
C9_NullPagesIffNoRange ==
    \A e \in Emitted :
        /\ (e.item[1].page_start = None) <=> (e.item[1].page_end = None)
        /\ (e.item[1].page_start = None) <=> NumberWithoutRange(e.hdr)

(***************************************************************************)
(* parse_minutes.py: the roster, the end of the minutes and the patterns   *)
(* of the scan.  The input alphabet is ASCII, so the en dash that some     *)
(* patterns allow beside the hyphen never occurs.                          *)
(***************************************************************************)
\* \d+-\d+(?:-\d+)?
Tally ==
    Cat(<<Plus(Cls(Digit)), Lit("-"), Plus(Cls(Digit)),
          Opt(Cat(<<Lit("-"), Plus(Cls(Digit))>>))>>)

\* ^(.+?),?\s+Councilperson  (re.MULTILINE)
roster_re ==
    Cat(<<Bol, Grp(1, Lazy(AnyCh, 1, Inf)), Opt(Lit(",")), Ws1, Lit("Councilperson")>>)

\* ,\s*Jr\.?\s*$
jr_suffix_re == Cat(<<Lit(","), Ws0, Lit("Jr"), Opt(Lit(".")), Ws0, Eol>>)

RosterStopWords ==
    {"of", "the", "a", "and", "acting", "jr", "large", "ward", "council", "pro",
     "tempore", "present", "absent", "members", "nine", "eight"}

\* the index of the last whitespace character of s at or before k, 0 if none
RECURSIVE LastSpace(_, _)
LastSpace(s, k) ==
    IF k = 0 THEN 0 ELSE IF At(s, k) \in Space THEN k ELSE LastSpace(s, k - 1)

\* s.split()[-1] for an s that is not all whitespace
LastWord(s) ==
    SubSeq(StrStrip(s), LastSpace(StrStrip(s), Len(StrStrip(s))) + 1, Len(StrStrip(s)))

\* the body of the loop of extract_roster for one match
AddMember(members, full_name) ==
    LET full_clean == StrStrip(ReSub(jr_suffix_re, "", StrStrip(full_name)))
        last == StrRStrip(LastWord(full_clean), {",", "."})
    IN IF full_clean = "" THEN members
       ELSE IF StrLower(last) \in RosterStopWords THEN members
       ELSE IF last \in SeqRange(members) THEN members
       ELSE Append(members, last)

\* re.finditer over the text: the pattern begins with ^, so a match starts at
\* the start of a line, p, and not before the end of the match before it
RECURSIVE RosterFrom(_, _, _, _)
RosterFrom(text, p, from, members) ==
    IF p = 0 THEN members
    ELSE CHOOSE y \in
           {IF p >= from /\ m.ok
            THEN RosterFrom(text, IF nl = 0 THEN 0 ELSE nl + 1, m.e,
                            AddMember(members, Group(text, m, 1)))
            ELSE RosterFrom(text, IF nl = 0 THEN 0 ELSE nl + 1, from, members)
            : m \in {ReAt(roster_re, text, p, TRUE)},
              nl \in {FindCh(text, "\n", p)}} : TRUE

extract_roster(text) ==
    LET members == RosterFrom(SubSeq(text, 1, Min(Len(text), 3000)), 1, 1, <<>>)
    IN IF members # <<>> THEN members ELSE DEFAULT_MEMBERS

\* ^\s*12\.\s+ADJOURNMENT
adjournment_re == Cat(<<Bol, Ws0, Lit("12."), Ws1, Lit("ADJOURNMENT")>>)

\* ^\s*(\d{1,2})\.\s*$
section_number_re == Cat(<<Bol, Ws0, Grp(1, D12), Lit("."), Ws0, Eol>>)

\* ^[A-Z][A-Z\s\-\(\),&]+
section_title_re ==
    Cat(<<Bol, Cls(Upper), Plus(Cls(Upper \cup Space \cup {"-", "(", ")", ",", "&"}))>>)

\* ^\s*(\d{1,2}\.\d{1,2})\s
item_re == Cat(<<Bol, Ws0, Grp(1, ItemNo), Cls(Space)>>)

\* ^\s*(Introduced|Approved|Withdrawn|Defeated|Tabled|Postponed)
\*  (?:\s*[-]?\s*(\d+-\d+(?:-\d+)?))?(?:\s{2,}(.+))?   (re.IGNORECASE)
vote_re ==
    Cat(<<Bol, Ws0,
          Grp(1, Alt(<<ILit("Introduced"), ILit("Approved"), ILit("Withdrawn"),
                       ILit("Defeated"), ILit("Tabled"), ILit("Postponed")>>)),
          Opt(Cat(<<Ws0, Opt(Lit("-")), Ws0, Grp(2, Tally)>>)),
          Opt(Cat(<<Rep(Cls(Space), 2, Inf), Grp(3, Plus(AnyCh))>>))>>)

\* ^(?:Councilperson|Council\s+president|and\s+Councilperson)  (re.IGNORECASE)
detail_cue_re ==
    Cat(<<Bol, Alt(<<ILit("Councilperson"),
                     Cat(<<ILit("Council"), Ws1, ILit("president")>>),
                     Cat(<<ILit("and"), Ws1, ILit("Councilperson")>>)>>)>>)

\* ^Withdrawn\s*-?\s*Pdf\s*$
withdrawn_pdf_re ==
    Cat(<<Bol, Lit("Withdrawn"), Ws0, Opt(Lit("-")), Ws0, Lit("Pdf"), Ws0, Eol>>)

\* ^(?:Ord|Res)\.\s*-?\s*Pdf\s*$
kind_pdf_re ==
    Cat(<<Bol, Alt(<<Lit("Ord"), Lit("Res")>>), Lit("."), Ws0, Opt(Lit("-")), Ws0,
          Lit("Pdf"), Ws0, Eol>>)

\* ^\s*\d{1,2}\.\d{1,2}\s+
item_prefix_re == Cat(<<Bol, Ws0, ItemNo, Ws1>>)

\* (Approved|Withdrawn|Defeated)\s*[-]?\s*(\d+-\d+(?:-\d+)?)  (re.IGNORECASE)
inline_vote_re ==
    Cat(<<Grp(1, Alt(<<ILit("Approved"), ILit("Withdrawn"), ILit("Defeated")>>)),
          Ws0, Opt(Lit("-")), Ws0, Grp(2, Tally)>>)

\* :\s*-?\s*(\d+-\d+(?:-\d+)?)
claims_tally_re == Cat(<<Lit(":"), Ws0, Opt(Lit("-")), Ws0, Grp(1, Tally)>>)

\* \s*(?:Ord|Res)\.\s*(?:\d{2}-\d{3})?\s*-?\s*(?:Pdf|Withdrawn\s*-?\s*Pdf)?\s*$
title_file_suffix_re ==
    Cat(<<Ws0, Alt(<<Lit("Ord"), Lit("Res")>>), Lit("."), Ws0,
          Opt(Cat(<<Rep(Cls(Digit), 2, 2), Lit("-"), Rep(Cls(Digit), 3, 3)>>)),
          Ws0, Opt(Lit("-")), Ws0,
          Opt(Alt(<<Lit("Pdf"),
                    Cat(<<Lit("Withdrawn"), Ws0, Opt(Lit("-")), Ws0, Lit("Pdf")>>)>>)),
          Ws0, Eol>>)

\* \s*Withdrawn\s*-?\s*Pdf\s*$
title_withdrawn_suffix_re ==
    Cat(<<Ws0, Lit("Withdrawn"), Ws0, Opt(Lit("-")), Ws0, Lit("Pdf"), Ws0, Eol>>)

\* \s*(?:Ord|Res)\.\s*\d{2}-\d{3}\s*-?\s*
title_inline_file_re ==
    Cat(<<Ws0, Alt(<<Lit("Ord"), Lit("Res")>>), Lit("."), Ws0,
          Rep(Cls(Digit), 2, 2), Lit("-"), Rep(Cls(Digit), 3, 3),
          Ws0, Opt(Lit("-")), Ws0>>)

\* :\s*(?:Approved|Withdrawn|Defeated)\s*-?\s*\d+-\d+(?:-\d+)?  (re.IGNORECASE)
title_inline_vote_re ==
    Cat(<<Lit(":"), Ws0, Alt(<<ILit("Approved"), ILit("Withdrawn"), ILit("Defeated")>>),
          Ws0, Opt(Lit("-")), Ws0, Tally>>)

\* the clean-up of a joined title
CleanTitle(joined) ==
    LET t1 == StrStrip(ReSub(spaces_re, " ", joined))
        t2 == StrStrip(ReSub(title_file_suffix_re, "", t1))
        t3 == StrStrip(ReSub(title_withdrawn_suffix_re, "", t2))
        t4 == StrStrip(ReSub(title_inline_file_re, " ", t3))
        t5 == ReSub(spaces_re, " ", t4)
    IN StrStrip(ReSub(title_inline_vote_re, "", t5))

\* The lines minutes are made of in this model: a section header, item lines
\* of sections 3 and 9 (the latter with a tally but no result word), an item
\* line of a section outside the domain, a dotted number that is no agenda
\* section, result lines without and with tally and detail, a file number
\* in two spacings, a section number alone on its line, a title in capitals,
\* an item line that ends in a result and a tally, an item line of section 3
\* that ends in a colon and a tally, a claims line that ends in a colon, a
\* result and a tally, a line that names a voter, text, and the blank line.
MinutesLines ==
    {"10. RES", "3.1 T", "9.1 C: -9-0", "5.1 P", "13.1 L", "Councilperson Lavarro: nay",
     "10.1 T  Approved 9-0", "3.1 T: 9-0", "9.1 C: Approved-9-0",
     "Withdrawn", "Tabled", "Approved 9-0", "Approved 8-1  x",
     "Res. 26-007", "Ord.26-006", "10.", "RES", "T", ""}

\* the two lines that end the minutes
EndLines == {"12. ADJOURNMENT", "Reviewed and found to be correct"}

\* what the patterns of parse_minutes give on each line
MinutesMatch ==
    [l \in MinutesLines \cup EndLines |->
        [stripped |-> StrStrip(l),
         sm |-> Groups(l, ReMatch(section_re, l)),
         sm2 |-> Groups(l, ReMatch(section_number_re, l)),
         title_like |-> ReMatch(section_title_re, StrStrip(l)).ok,
         im |-> Groups(l, ReMatch(item_re, l)),
         fm |-> Groups(StrStrip(l), ReSearch(file_number_re, StrStrip(l))),
         fm_match |-> ReMatch(file_number_re, StrStrip(l)).ok,
         vm |-> Groups(StrStrip(l), ReMatch(vote_re, StrStrip(l))),
         cue |-> ReMatch(detail_cue_re, StrStrip(l)).ok,
         dropped |-> \/ ReMatch(withdrawn_pdf_re, StrStrip(l)).ok
                     \/ ReMatch(kind_pdf_re, StrStrip(l)).ok,
         title_text |-> StrStrip(ReSub(item_prefix_re, "", l)),
         reviewed |-> Contains(StrStrip(l), "Reviewed and found to be correct"),
         adjournment |-> ReMatch(adjournment_re, StrStrip(l)).ok]]

\* find_minutes_end: the number of lines that are kept
RECURSIVE find_minutes_end(_, _)
find_minutes_end(raw, k) ==
    IF k > Len(raw) THEN Len(raw)
    ELSE IF MinutesMatch[raw[k]].reviewed THEN k - 1
    ELSE IF MinutesMatch[raw[k]].adjournment THEN k - 1 + 10
    ELSE find_minutes_end(raw, k + 1)

\* a scan that parses the items of every section
AnySection(sec_prefix) == TRUE

\* sec_prefix in ('3', '4', '9', '10'): the sections whose items are parsed
ParsedSection(sec_prefix) == sec_prefix \in {"3", "4", "9", "10"}

\* the prefixes of the item lines that end a block
BlockEndPrefixes == {"3", "4", "5", "6", "7", "8", "9", "10", "11", "12"}

\* the lines of the block, first..(BlockEnd - 1): gathering stops at an item
\* of sections 3..12, at a section header and at a section number alone
RECURSIVE BlockEnd(_)
BlockEnd(k) ==
    IF k > Len(lines) THEN k
    ELSE IF \/ Line(k).im.ok /\ ItemPrefix(Line(k).im.g[1]) \in BlockEndPrefixes
            \/ Line(k).sm.ok
            \/ Line(k).sm2.ok
         THEN k
         ELSE BlockEnd(k + 1)

\* a result line whose detail is never continued
NoContinuation(k, end) == <<>>

\* the lines after a result line that continue its detail: blank lines are
\* passed over, the first other line that does not begin with a cue ends it
RECURSIVE DetailContinuation(_, _)
DetailContinuation(k, end) ==
    IF k >= end THEN <<>>
    ELSE IF Line(k).stripped = "" THEN DetailContinuation(k + 1, end)
    ELSE IF Line(k).cue THEN <<Line(k).stripped>> \o DetailContinuation(k + 1, end)
    ELSE <<>>

NoVote ==
    [title_parts |-> <<>>, vote_result |-> None, vote_tally |-> None,
     vote_detail_parts |-> <<>>, file_number |-> None, found_vote |-> FALSE]

\* a scan that never takes a file number
FileNumberKept(L, file_number) == file_number

\* fm = file_number_re.search(istripped); if fm: file_number = ...
FileNumberAt(L, file_number) ==
    IF L.fm.ok THEN Some(NormalizeFileNumber(L.fm.g[1])) ELSE file_number

\* for j, iline in enumerate(item_lines): the lines j..(end - 1) of the block
\* that begins at line first
RECURSIVE ItemScan(_, _, _, _)
ItemScan(first, j, end, st) ==
    IF j >= end THEN st
    ELSE
      LET L == Line(j)
          file_number == FileNumberAt(L, st.file_number)
      IN
      IF L.vm.ok
      THEN ItemScan(first, j + 1, end,
             [st EXCEPT !.file_number = file_number,
                        !.vote_result = Some(StrCapitalize(L.vm.g[1])),
                        !.vote_tally = IF L.vm.g[2] # "" THEN Some(L.vm.g[2]) ELSE @,
                        !.vote_detail_parts =
                            @ \o (IF L.vm.g[3] # "" THEN <<StrStrip(L.vm.g[3])>> ELSE <<>>)
                              \o DetailContinuation(j + 1, end),
                        !.found_vote = TRUE])
      ELSE IF ~st.found_vote /\ L.stripped # ""
      THEN ItemScan(first, j + 1, end,
             [st EXCEPT !.file_number = file_number,
                        !.title_parts =
                            IF j = first
                            THEN (IF L.title_text # "" THEN Append(@, L.title_text) ELSE @)
                            ELSE IF L.fm_match \/ L.dropped THEN @
                            ELSE Append(@, L.stripped)])
      ELSE ItemScan(first, j + 1, end, [st EXCEPT !.file_number = file_number])

\* " ".join(il.strip() for il in item_lines)
RECURSIVE Combined(_, _)
Combined(j, end) ==
    IF j >= end THEN ""
    ELSE IF j = end - 1 THEN Line(j).stripped
    ELSE Line(j).stripped \o " " \o Combined(j + 1, end)

\* a scan with no fallback for a block without a result line
NoInlineVote(st, sec_prefix, combined) == st

\* if not found_vote: the result and tally of a block in which no line begins
\* with a result word
InlineVote(st, sec_prefix, combined) ==
    CHOOSE y \in
      {IF st.found_vote THEN st
       ELSE IF cm.ok
       THEN [st EXCEPT !.vote_result = Some(StrCapitalize(Group(combined, cm, 1))),
                       !.vote_tally = Some(Group(combined, cm, 2))]
       ELSE IF sec_prefix = "9" /\ cm2.ok
       THEN [st EXCEPT !.vote_result = Some("Approved"),
                       !.vote_tally = Some(Group(combined, cm2, 1))]
       ELSE st
       : cm \in {ReSearch(inline_vote_re, combined)},
         cm2 \in {ReSearch(claims_tally_re, combined)}} : TRUE

\* votes that are present only with a tally
VotesOfTally(st, vote_detail, members) ==
    IF st.vote_tally # None
    THEN Some(build_vote_breakdown(st.vote_result[1], st.vote_tally[1],
                                   vote_detail, members))
    ELSE None

\* the votes of an item: None, the empty breakdown, or the reconstruction
ItemVotes(st, vote_detail, members) ==
    IF st.vote_result = None THEN None
    ELSE IF StrLower(st.vote_result[1]) = "withdrawn" /\ st.vote_tally = None
    THEN Some(EmptyVotes)
    ELSE IF st.vote_tally # None
    THEN Some(build_vote_breakdown(st.vote_result[1], st.vote_tally[1],
                                   vote_detail, members))
    ELSE None

\* item_data: the keys votes and vote_detail are present only when set
ItemData(item_number, st, title, vote_detail, item_votes) ==
    [item_number |-> item_number,
     title |-> IF title # "" THEN Some(title) ELSE None,
     file_number |-> st.file_number,
     result |-> IF st.vote_result # None THEN Some(StrLower(st.vote_result[1]))
                ELSE None,
     vote_tally |-> st.vote_tally]
    @@ (IF item_votes # None THEN "votes" :> item_votes[1] ELSE <<>>)
    @@ (IF vote_detail # "" THEN "vote_detail" :> vote_detail ELSE <<>>)

\* the item of a scanned block: title, vote detail and votes, then item_data
ItemOfScan(item_number, st, members) ==
    ItemData(item_number, st,
             CleanTitle(Join(st.title_parts, " ")),
             Join(st.vote_detail_parts, " "),
             ItemVotes(st, Join(st.vote_detail_parts, " "), members))

\* the item of the block first..(end - 1)
ParseItem(first, end, members) ==
    ItemOfScan(Line(first).im.g[1],
               InlineVote(ItemScan(first, first, end, NoVote),
                          ItemPrefix(Line(first).im.g[1]), Combined(first, end)),
               members)

(***************************************************************************)
(* parse_minutes: the main loop.  current_section holds the number of the  *)
(* section tracked by the scan, items the items appended so far.           *)
(***************************************************************************)
MaxMinutesLines == 3

MinutesTexts == UNION {[1..n -> MinutesLines] : n \in 0..MaxMinutesLines}

\* an iteration of the main loop, as the log keeps it: the handler, the index
\* it was entered at, the item appended if any, the index the cursor was left
\* at
MinutesStep(op, item, next) ==
    [op |-> op, at |-> i, item |-> item, next |-> next]

\* parse_minutes before its main loop, on a text of `texts`
MinutesStart(texts) ==
    /\ pc = "scan_minutes"
    /\ \E body \in texts : full_text = FullText(body)
    /\ LET raw == SplitLines(full_text)
           kept == Take(raw, find_minutes_end(raw, 1))
       IN /\ roster = extract_roster(full_text)
          /\ lines = kept
          /\ matched = [k \in 1..Len(kept) |-> MinutesMatch[kept[k]]]
    /\ i = 1
    /\ current_section = None
    /\ sections = <<>>
    /\ items = <<>>
    /\ log = <<>>
    /\ tally_str = "" /\ detail_text = "" /\ votes = None /\ raised = FALSE
    /\ InitSplitIdle
    /\ InitTextIdle

InitMinutes == MinutesStart(MinutesTexts)

\* The minutes with an end: items, then the adjournment header, up to MaxFill
\* lines of text and perhaps the line of the review, or the line of the
\* review and perhaps the header, and then the lines of one more item: one
\* line with result and tally, or a title and a file number on two lines.
MaxFill == 10

Fill(n) == [k \in 1..n |-> "T"]
Heads == {<<>>, <<"3.1 T", "Approved 9-0">>, <<"5.1 P">>}
Tails == {<<>>, <<"10.1 T  Approved 9-0">>, <<"3.1 T", "Res. 26-007">>}
Reviews == {<<>>, <<"Reviewed and found to be correct">>}
Adjournments == {<<>>, <<"12. ADJOURNMENT">>}

EndTexts ==
    {h \o <<"12. ADJOURNMENT">> \o Fill(n) \o r \o t :
        h \in Heads, n \in 0..MaxFill, r \in Reviews, t \in Tails}
    \cup {h \o <<"Reviewed and found to be correct">> \o a \o t :
            h \in Heads, a \in Adjournments, t \in Tails}
    \cup {h \o t : h \in Heads, t \in Tails}

InitMinutesEnd == MinutesStart(EndTexts)

\* while i < len(lines), in parse_minutes
MinutesScanning == pc = "scan_minutes" /\ i <= Len(lines)

MinutesAdvance(op) ==
    /\ i' = i + 1
    /\ log' = Append(log, MinutesStep(op, None, i + 1))
    /\ UNCHANGED <<pc, lines, matched, sections, items, roster>>
    /\ UNCHANGED <<tally_str, detail_text, votes, raised>>
    /\ UNCHANGED splitVars
    /\ UNCHANGED textVars
    /\ UNCHANGED full_text

\* the next non-blank line after a section number alone looks like a title
TitleFollows ==
    LET peek == SkipBlank(i + 1) IN
    peek <= Len(lines) /\ Line(peek).title_like

IsSectionLine == Line(i).sm.ok \/ (Line(i).sm2.ok /\ TitleFollows)

\* a section header, on one line or split over two: the section is tracked
MinutesSection ==
    /\ MinutesScanning
    /\ IsSectionLine
    /\ current_section' =
           Some(IntOf(IF Line(i).sm.ok THEN Line(i).sm.g[1] ELSE Line(i).sm2.g[1]))
    /\ i' = i + 1
    /\ log' = Append(log, MinutesStep("section", None, i + 1))
    /\ UNCHANGED <<pc, lines, matched, sections, items, roster>>
    /\ UNCHANGED <<tally_str, detail_text, votes, raised>>
    /\ UNCHANGED splitVars
    /\ UNCHANGED textVars
    /\ UNCHANGED full_text

\* an item number of a section that is not parsed: i += 1
SkipOtherSection ==
    /\ MinutesScanning
    /\ ~IsSectionLine
    /\ Line(i).im.ok
    /\ ~ParsedSection(ItemPrefix(Line(i).im.g[1]))
    /\ UNCHANGED current_section
    /\ MinutesAdvance("other_section")

\* an item of sections 3, 4, 9, 10: its block is gathered and parsed
MinutesItem ==
    /\ MinutesScanning
    /\ ~IsSectionLine
    /\ Line(i).im.ok
    /\ ParsedSection(ItemPrefix(Line(i).im.g[1]))
    /\ \E end \in {BlockEnd(i + 1)} :
         \E item_data \in {ParseItem(i, end, roster)} :
            /\ items' = Append(items, item_data)
            /\ i' = end
            /\ log' = Append(log, MinutesStep("item", Some(item_data), end))
    /\ UNCHANGED <<pc, lines, matched, current_section, sections, roster>>
    /\ UNCHANGED <<tally_str, detail_text, votes, raised>>
    /\ UNCHANGED splitVars
    /\ UNCHANGED textVars
    /\ UNCHANGED full_text

\* any other line: i += 1
MinutesSkipLine ==
    /\ MinutesScanning
    /\ ~IsSectionLine
    /\ ~Line(i).im.ok
    /\ UNCHANGED current_section
    /\ MinutesAdvance("skip")

\* the end of the loop
MinutesFinish ==
    /\ pc = "scan_minutes"
    /\ i > Len(lines)
    /\ pc' = "done_minutes"
    /\ log' = Append(log, MinutesStep("finish", None, i))
    /\ UNCHANGED <<lines, matched, i, current_section, sections, items, roster>>
    /\ UNCHANGED <<tally_str, detail_text, votes, raised>>
    /\ UNCHANGED splitVars
    /\ UNCHANGED textVars
    /\ UNCHANGED full_text

NextMinutes ==
    \/ MinutesSection
    \/ SkipOtherSection
    \/ MinutesItem
    \/ MinutesSkipLine
    \/ MinutesFinish

SpecMinutes == InitMinutes /\ [][NextMinutes]_vars

\* parse_minutes on the minutes with an end
SpecMinutesEnd == InitMinutesEnd /\ [][NextMinutes]_vars

(***************************************************************************)
(* Properties of the minutes scan.                                         *)
(***************************************************************************)
MinutesItems == SeqRange(items)

\* the iterations that appended an item
ItemSteps == {e \in LogEntries : e.op = "item"}

\* a result line of the block of e carries detail text after its tally
BlockHasDetail(e) ==
    \E k \in e.at..(e.next - 1) : Line(k).vm.ok /\ StrStrip(Line(k).vm.g[3]) # ""

\* the key vote_detail is there only with a non-empty text, and it is there
\* when a result line of the item's block carries detail
DetailKeyOnlyIfDetail ==
    /\ \A it \in MinutesItems :
           "vote_detail" \in DOMAIN it => it["vote_detail"] # ""
    /\ \A e \in ItemSteps :
           BlockHasDetail(e) => "vote_detail" \in DOMAIN e.item[1]

C10_OnlyParsedSections ==
    /\ \A it \in MinutesItems : ItemPrefix(it.item_number) \in {"3", "4", "9", "10"}
    /\ \A e \in LogEntries :
           (/\ e.op # "finish"
            /\ Line(e.at).im.ok
            /\ ItemPrefix(Line(e.at).im.g[1]) \notin {"3", "4", "9", "10"})
           => (e.item = None /\ e.next = e.at + 1 /\ e.op = "other_section")
    /\ Len(items) = Cardinality(ItemSteps)

\* C10, its case: the scan is over, it has appended an item and it has come
\* upon an item-number line of another section.
C10_Witness ==
    /\ pc = "done_minutes"
    /\ items # <<>>
    /\ \E e \in LogEntries :
           /\ e.op = "other_section"
           /\ Line(e.at).im.ok
           /\ ItemPrefix(Line(e.at).im.g[1]) \notin {"3", "4", "9", "10"}

(***************************************************************************)
(* The two scans together: parse_agenda or parse_minutes on any text.      *)
(***************************************************************************)
InitScans == InitAgenda \/ InitMinutes
NextScans == NextAgenda \/ NextMinutes
SpecScans == InitScans /\ [][NextScans]_vars

InAgenda == pc \in {"scan", "done"}
InMinutes == pc \in {"scan_minutes", "done_minutes"}
ScanOver == pc \in {"done", "done_minutes"}

\* the line under the cursor is accepted by no handler of parse_agenda: it is
\* no section header and no page range alone, and it offers no item number
\* with the prefix of an open section
AgendaUnaccepted ==
    /\ Scanning
    /\ ~Line(i).sm.ok /\ ~Line(i).mc.ok
    /\ \/ current_section = None
       \/ Candidate(i) = ""
       \/ ItemPrefix(Candidate(i)) # StrOfInt(SecNum)

\* the line under the cursor is accepted by no handler of parse_minutes: it
\* is no section header and no item line of the sections 3, 4, 9 and 10
MinutesUnaccepted ==
    /\ MinutesScanning
    /\ ~IsSectionLine
    /\ ~(Line(i).im.ok /\ ItemPrefix(Line(i).im.g[1]) \in {"3", "4", "9", "10"})

\* an iteration moves the cursor on by at least one line, and by exactly one
\* from a line that no handler accepts
C12_IterationAdvances ==
    /\ pc' = pc => i' >= i + 1
    /\ (AgendaUnaccepted \/ MinutesUnaccepted) => i' = i + 1

\* while the cursor is on a line some branch of the loop body takes the
\* iteration
C12_SomeBranch ==
    /\ Scanning =>
          \/ Line(i).sm.ok
          \/ current_section = None
          \/ AcceptsA \/ AcceptsB \/ EndsInC
          \/ (ReachesPlain /\ (AcceptsAlone \/ AcceptsWithTitle))
          \/ AgendaUnaccepted
          \/ (ReachesC /\ AfterRange <= Len(lines))
    /\ MinutesScanning =>
          \/ IsSectionLine
          \/ Line(i).im.ok /\ ParsedSection(ItemPrefix(Line(i).im.g[1]))
          \/ MinutesUnaccepted

\* what would make an iteration raise does not occur: the cursor is on a line
\* or just past the last one, the lines an iteration has read are lines of
\* the text, an item is appended to an open section only, and every tally
\* handed to the vote breakdown is one that int() reads
C12_NothingRaises ==
    /\ i \in 1..(Len(lines) + 1)
    /\ \A e \in LogEntries :
          /\ e.next \in (e.at + 1)..(Len(lines) + 1) \/ e.op = "finish"
          /\ e.op # "finish" => e.at \in 1..Len(lines)
    /\ InAgenda => \A e \in Emitted : e.sec # 0 /\ e.hdr \in 1..Len(lines)
    /\ InMinutes =>
          \A it \in MinutesItems :
              it.vote_tally # None => ~parse_vote_tally(it.vote_tally[1]).raises

FileNumbers ==
    {it.file_number[1] :
        it \in {x \in (IF InAgenda THEN UNION {SeqRange(s.items) : s \in Built} ELSE MinutesItems) :
                    x.file_number # None}}

\* "Ord. NN-NNN" or "Res. NN-NNN": the kind, a period, exactly one space, two
\* digits, a dash, three digits
IsCanonical(fn) ==
    /\ Len(fn) = 11
    /\ SubSeq(fn, 1, 5) \in {"Ord. ", "Res. "}
    /\ \A k \in {6, 7, 9, 10, 11} : SubSeq(fn, k, k) \in Digit
    /\ SubSeq(fn, 8, 8) = "-"

\* the lines of the input that hold a file number written with no space or
\* with several spaces after the period
LooseSpacing ==
    {k \in 1..Len(lines) : Line(k).fm.ok /\ ~IsCanonical(Line(k).fm.g[1])}

\* C13: every non-null file number of an item built by parse_agenda or by
\* parse_minutes is "Ord. NN-NNN" or "Res. NN-NNN" with exactly one space
\* after the period, and normalising it again leaves it unchanged
C13_CanonicalFileNumbers ==
    \A fn \in FileNumbers : IsCanonical(fn) /\ NormalizeFileNumber(fn) = fn

\* both parsers have emitted a file number taken from a line that writes it
\* with no space or with two spaces after the period
C13_Witness ==
    /\ ScanOver
    /\ \E k \in LooseSpacing : Canonical(Line(k).fm.g[1]) \in FileNumbers
    /\ InAgenda => \E k \in LooseSpacing : Len(Line(k).fm.g[1]) = 12
    /\ InMinutes => \E k \in LooseSpacing : Len(Line(k).fm.g[1]) = 10

(***************************************************************************)
(* split_packet: the packet is a sequence of page texts, the agenda JSON   *)
(* is what parse_agenda returns.  A saved file is recorded by its path and *)
(* the 0-based from_page / to_page handed to insert_pdf.                   *)
(***************************************************************************)
MaxPages == 4
MaxSectionItems == 1

\* SECTION_DIR_MAP.get(section_type, "other")
subdir_for_item(section_type) ==
    IF section_type \in {"ordinance_first_reading", "ordinance_second_reading"}
    THEN "ordinances"
    ELSE IF section_type = "resolutions" THEN "resolutions"
    ELSE IF section_type = "claims" THEN "claims"
    ELSE "other"

\* \w of the four substitutions
Word == Digit \cup Upper \cup Lower \cup {"_"}

sanitize_filename(s) ==
    LET a == ReSub(Cat(<<Lit("."), Star(Cls(Space))>>), "-", s)
        b == ReSub(Plus(Cls(Space)), "-", a)
        c == ReSub(NCls(Word \cup {"-"}), "", b)
        d == ReSub(Plus(Lit("-")), "-", c)
    IN SubSeq(d, LStripFrom(d, 1, {"-"}), RStripTo(d, Len(d), {"-"}))

\* f"{n:02d}"
Pad2(n) == IF n < 10 THEN "0" \o StrOfInt(n) ELSE StrOfInt(n)

build_filename(item) ==
    LET parts == SplitOn(item.item_number, ".")
        padded == Pad2(IntOf(parts[1])) \o "." \o Pad2(IntOf(parts[2]))
    IN IF item.file_number # None
       THEN padded \o "_" \o item.item_type \o "_"
            \o sanitize_filename(item.file_number[1]) \o ".pdf"
       ELSE padded \o "_" \o item.item_type \o ".pdf"

\* s.replace(" ", "")
RECURSIVE NoBlanks(_)
NoBlanks(s) ==
    IF s = "" THEN ""
    ELSE (IF At(s, 1) = " " THEN "" ELSE At(s, 1)) \o NoBlanks(SubSeq(s, 2, Len(s)))

\* a validation that finds every file number
ValidateAll(packet_doc, item, page_start_0, page_end_0) == TRUE

\* the first pages of the range, at most three, are searched for the file
\* number with the spaces taken out of both
validate_split(packet_doc, item, page_start_0, page_end_0) ==
    \/ item.file_number = None
    \/ \E pg \in page_start_0..(Min(page_end_0 + 1, page_start_0 + 3) - 1) :
          Contains(NoBlanks(packet_doc[pg + 1]), NoBlanks(item.file_number[1]))

\* a bounds check that forgets the end of the range
StartsBeforePacket(start_0, end_0, total_packet_pages) == start_0 < 0

\* if start_0 < 0 or end_0 >= total_packet_pages
OutOfBounds(start_0, end_0, total_packet_pages) ==
    start_0 < 0 \/ end_0 >= total_packet_pages

\* items_to_split.sort(key=lambda x: x[0]["page_start"]): a stable sort
RECURSIVE InsertByPageStart(_, _)
InsertByPageStart(sorted, x) ==
    IF sorted = <<>> THEN <<x>>
    ELSE IF sorted[Len(sorted)][1].page_start[1] <= x[1].page_start[1]
         THEN Append(sorted, x)
         ELSE Append(InsertByPageStart(SubSeq(sorted, 1, Len(sorted) - 1), x),
                     sorted[Len(sorted)])

RECURSIVE SortByPageStart(_, _, _)
SortByPageStart(pairs, k, sorted) ==
    IF k > Len(pairs) THEN sorted
    ELSE SortByPageStart(pairs, k + 1, InsertByPageStart(sorted, pairs[k]))

\* the (item, sec_type) pairs of the items that have a page range, in agenda
\* order
RECURSIVE CollectItems(_, _)
CollectItems(secs, k) ==
    IF k > Len(secs) THEN <<>>
    ELSE [n \in 1..Len(SelectSeq(secs[k].items, LAMBDA it :
                                   it.page_start # None /\ it.page_end # None))
            |-> <<SelectSeq(secs[k].items, LAMBDA it :
                              it.page_start # None /\ it.page_end # None)[n],
                  secs[k].type>>]
         \o CollectItems(secs, k + 1)

\* The agendas of this model: an ordinance section and an untyped section,
\* each with up to MaxSectionItems items; an item has no page range or any
\* range over page numbers 0 .. MaxPages + 1.  The packets have 1 .. MaxPages pages,
\* each blank or holding the ordinance's file number in source spacing.
PageTexts == {"", "x Ord.26-006"}
Packets == UNION {[1..n -> PageTexts] : n \in 1..MaxPages}
PageRanges ==
    {<<None, None>>}
    \cup {<<Some(a), Some(b)>> : a \in 0..MaxPages, b \in 0..(MaxPages + 1)}

SectionItems(item_number, file_number, section_type) ==
    UNION {[1..n -> {[item_number |-> item_number,
                      title |-> "T",
                      page_start |-> r[1],
                      page_end |-> r[2],
                      file_number |-> file_number,
                      item_type |-> item_type_from_section(section_type)]
                     : r \in PageRanges}]
           : n \in 0..MaxSectionItems}

AgendaSections ==
    {<<[number |-> "3", type |-> "ordinance_first_reading", items |-> a],
       [number |-> "4", type |-> "other", items |-> b]>>
       : a \in SectionItems("3.1", Some("Ord. 26-006"), "ordinance_first_reading"),
         b \in SectionItems("4.12", None, "other")}

total_packet_pages == Len(packet)

InitSplit ==
    /\ pc = "split_agenda"
    /\ packet \in Packets
    /\ agenda_pages \in {1, 2}
    /\ \E secs \in AgendaSections :
          items_to_split = SortByPageStart(CollectItems(secs, 1), 1, <<>>)
    /\ item_index = 1
    /\ manifest_entries = <<>>
    /\ total_pages_split = 0
    /\ warnings = <<>>
    /\ files = <<>>
    /\ manifest = None
    /\ InitScanIdle
    /\ roster = <<>> /\ tally_str = "" /\ detail_text = "" /\ votes = None
    /\ raised = FALSE
    /\ InitTextIdle
    /\ full_text = ""

SavedFile(path, from_page, to_page) ==
    [path |-> path, from_page |-> from_page, to_page |-> to_page]

ManifestEntry(item_number, title, item_type, file_number, page_start, page_end, page_count, output_file) ==
    [item_number |-> item_number, title |-> title, item_type |-> item_type,
     file_number |-> file_number, page_start |-> page_start,
     page_end |-> page_end, page_count |-> page_count,
     output_file |-> output_file]

\* 1. Extract the agenda itself (pages 1 through agenda_pages)
ExtractAgenda ==
    /\ pc = "split_agenda"
    /\ files' = Append(files, SavedFile("agenda/00.00_agenda.pdf", 0, agenda_pages - 1))
    /\ total_pages_split' = total_pages_split + agenda_pages
    /\ manifest_entries' =
          Append(manifest_entries,
                 ManifestEntry("0.0", "Agenda", "agenda", None, 1, agenda_pages,
                               agenda_pages, "agenda/00.00_agenda.pdf"))
    /\ pc' = "split_items"
    /\ UNCHANGED <<packet, agenda_pages, items_to_split, item_index, warnings, manifest>>
    /\ UNCHANGED scanVars
    /\ UNCHANGED callVars
    /\ UNCHANGED textVars
    /\ UNCHANGED full_text

Pages(page_start, page_end) == StrOfInt(page_start) \o "-" \o StrOfInt(page_end)

OutOfBoundsWarning(item) ==
    "WARNING: Item " \o item.item_number \o " pages "
    \o Pages(item.page_start[1], item.page_end[1])
    \o " out of bounds (packet has " \o StrOfInt(total_packet_pages) \o " pages)"

NotFoundWarning(item) ==
    "WARNING: Item " \o item.item_number \o " - file number '"
    \o (IF item.file_number = None THEN "None" ELSE item.file_number[1])
    \o "' not found in pages " \o Pages(item.page_start[1], item.page_end[1])

SplitLoop == pc = "split_items" /\ item_index <= Len(items_to_split)
Item == items_to_split[item_index][1]
SecType == items_to_split[item_index][2]
Start0 == Item.page_start[1] - 1
End0 == Item.page_end[1] - 1

\* the bounds check: a warning, and on to the next item
RejectOutOfBounds ==
    /\ SplitLoop
    /\ OutOfBounds(Start0, End0, total_packet_pages)
    /\ warnings' = Append(warnings, OutOfBoundsWarning(Item))
    /\ item_index' = item_index + 1
    /\ UNCHANGED <<pc, packet, agenda_pages, items_to_split, manifest_entries,
                   total_pages_split, files, manifest>>
    /\ UNCHANGED scanVars
    /\ UNCHANGED callVars
    /\ UNCHANGED textVars
    /\ UNCHANGED full_text

\* validate, extract, save, list in the manifest
ExtractItem ==
    /\ SplitLoop
    /\ ~OutOfBounds(Start0, End0, total_packet_pages)
    /\ warnings' = IF validate_split(packet, Item, Start0, End0) THEN warnings
                   ELSE Append(warnings, NotFoundWarning(Item))
    /\ \E rel_path \in {subdir_for_item(SecType) \o "/" \o build_filename(Item)} :
          /\ files' = Append(files, SavedFile(rel_path, Start0, End0))
          /\ manifest_entries' =
                Append(manifest_entries,
                       ManifestEntry(Item.item_number, Item.title, Item.item_type,
                                     Item.file_number, Item.page_start[1],
                                     Item.page_end[1], End0 - Start0 + 1, rel_path))
    /\ total_pages_split' = total_pages_split + (End0 - Start0 + 1)
    /\ item_index' = item_index + 1
    /\ UNCHANGED <<pc, packet, agenda_pages, items_to_split, manifest>>
    /\ UNCHANGED scanVars
    /\ UNCHANGED callVars
    /\ UNCHANGED textVars
    /\ UNCHANGED full_text

\* 3. Write manifest
WriteManifest ==
    /\ pc = "split_items"
    /\ item_index > Len(items_to_split)
    /\ manifest' = Some([packet_pages |-> total_packet_pages,
                         files_created |-> Len(manifest_entries),
                         total_pages_split |-> total_pages_split,
                         warnings |-> warnings,
                         items |-> manifest_entries])
    /\ pc' = "split_done"
    /\ UNCHANGED <<packet, agenda_pages, items_to_split, item_index,
                   manifest_entries, total_pages_split, warnings, files>>
    /\ UNCHANGED scanVars
    /\ UNCHANGED callVars
    /\ UNCHANGED textVars
    /\ UNCHANGED full_text

NextSplit ==
    \/ ExtractAgenda
    \/ RejectOutOfBounds
    \/ ExtractItem
    \/ WriteManifest

SpecSplit == InitSplit /\ [][NextSplit]_vars

\* ---- C14 ----

\* the items the loop has been through
Processed == SubSeq(items_to_split, 1, item_index - 1)

\* page_start < 1 or page_end beyond the last page of the packet
OutOfRange(p) ==
    p[1].page_start[1] < 1 \/ p[1].page_end[1] > total_packet_pages
InRange(p) == ~OutOfRange(p)

IsOutOfBoundsWarning(w) == Contains(w, "out of bounds")

\* the iteration of an item whose range is out of bounds records one warning,
\* saves nothing, lists nothing, and goes on to the next item
C14_RejectStep ==
    (SplitLoop /\ OutOfRange(items_to_split[item_index])) =>
        /\ warnings' = Append(warnings, OutOfBoundsWarning(Item))
        /\ files' = files
        /\ manifest_entries' = manifest_entries
        /\ total_pages_split' = total_pages_split
        /\ item_index' = item_index + 1
        /\ pc' = "split_items"

\* the out-of-bounds warnings are those of the rejected items, one each and
\* in order; the saved files and manifest entries after the agenda's are
\* those of the other items; the manifest is written after the last item
C14_Rejected ==
    pc \in {"split_items", "split_done"} =>
        /\ SelectSeq(warnings, IsOutOfBoundsWarning)
             = [k \in 1..Len(SelectSeq(Processed, OutOfRange)) |->
                   OutOfBoundsWarning(SelectSeq(Processed, OutOfRange)[k][1])]
        /\ [k \in 1..(Len(manifest_entries) - 1) |-> manifest_entries[k + 1].item_number]
             = [k \in 1..Len(SelectSeq(Processed, InRange)) |->
                   SelectSeq(Processed, InRange)[k][1].item_number]
        /\ Len(files) = Len(manifest_entries)
        /\ pc = "split_done" =>
              /\ item_index = Len(items_to_split) + 1
              /\ manifest # None
              /\ manifest[1].items = manifest_entries
              /\ manifest[1].warnings = warnings

\* C14: for every item with a page range, if page_start < 1 or page_end
\* exceeds the packet's page count, exactly one warning is recorded for it,
\* no file and no manifest entry is produced for it, and the remaining items
\* are still processed: the batch goes on to the manifest
C14_OutOfBoundsRejected == [][C14_RejectStep]_vars /\ []C14_Rejected

\* a finished batch of two items: the first ends past the last page of the
\* packet and is rejected, the second is extracted and listed
C14_Witness ==
    /\ pc = "split_done"
    /\ Len(items_to_split) = 2
    /\ items_to_split[1][1].page_start[1] >= 1
    /\ items_to_split[1][1].page_end[1] > total_packet_pages
    /\ InRange(items_to_split[2])
    /\ Len(manifest[1].warnings) = 1
    /\ manifest[1].files_created = 2
    /\ manifest[1].items[2].item_number = items_to_split[2][1].item_number

\* ---- C15 ----

\* a non-blank line that ends a title: a section header, a header with a page
\* range, a file-number line, or an item number of section sec.  A file-number
\* line is a line holding a file number anywhere, or (anywhere = FALSE) a line
\* that begins with one
EndsTitle(k, sec, anywhere) ==
    /\ Line(k).stripped # ""
    /\ \/ Line(k).sm.ok
       \/ Line(k).ma.ok \/ Line(k).mb.ok \/ Line(k).mc.ok
       \/ IF anywhere THEN Line(k).fm.ok ELSE Line(k).fm_match.ok
       \/ Line(k).mi.ok /\ ItemPrefix(Line(k).mi.g[1]) = StrOfInt(sec)
       \/ Line(k).mi2.ok /\ ItemPrefix(Line(k).mi2.g[1]) = StrOfInt(sec)

\* the first line from k on that ends a title, len(lines) + 1 if none
FirstEnd(k, sec, anywhere) ==
    IF \E n \in k..Len(lines) : EndsTitle(n, sec, anywhere)
    THEN CHOOSE n \in k..Len(lines) :
            /\ EndsTitle(n, sec, anywhere)
            /\ \A b \in k..(n - 1) : ~EndsTitle(b, sec, anywhere)
    ELSE Len(lines) + 1

\* the non-blank lines k .. end - 1, stripped, in input order
RECURSIVE NonBlank(_, _)
NonBlank(k, end) ==
    IF k >= end THEN <<>>
    ELSE (IF Line(k).stripped = "" THEN <<>> ELSE <<Line(k).stripped>>)
         \o NonBlank(k + 1, end)

\* the title text the header line itself gives
HeaderTitle(e) ==
    IF e.op = "pattern_a" THEN <<StrStrip(Line(e.hdr).ma.g[4])>>
    ELSE IF e.op \in {"pattern_c", "item_with_title"} /\ Line(e.hdr).mi2.ok
         THEN <<StrStrip(Line(e.hdr).mi2.g[2])>>
    ELSE <<>>

\* the title of the item of iteration e if absorption took the lines up to end
TitleUpTo(e, end) ==
    IF e.op \in {"pattern_a", "pattern_b", "pattern_c"}
    THEN ReSub(spaces_re, " ",
               StrStrip(ReSub(title_suffix_re, "",
                              Join(HeaderTitle(e) \o NonBlank(e.hdr + 1, end), " "))))
    ELSE StrStrip(ReSub(spaces_re, " ",
                        Join(HeaderTitle(e) \o NonBlank(e.hdr + 1, end), " ")))

\* absorption of every emitted item stopped at the first line that ends a
\* title and the title is made of the non-blank lines before it, in order
AbsorbedUpToEnd(anywhere) ==
    \A e \in Emitted :
        /\ e.stop = FirstEnd(e.hdr + 1, e.sec, anywhere)
        /\ e.item[1].title = TitleUpTo(e, e.stop)
        /\ e.next >= e.stop

\* C15: title absorption after an accepted header stops, without consuming
\* it, at the first non-blank line that is a section header, a header with a
\* page range, a line in which a file number appears anywhere, or an item
\* number with the open section's prefix; every other non-blank line is
\* appended to the title in input order and blank lines are skipped
C15_AbsorptionStops == AbsorbedUpToEnd(TRUE)

\* what the code does: as C15 with a file-number line being a line that
\* begins with a file number
C15_AbsorptionStopsAtLeadingFileNumber == AbsorbedUpToEnd(FALSE)

\* an item whose title took in a line that holds a file number after other
\* text, and whose file_number is null
C15_Witness ==
    /\ pc = "done"
    /\ \E e \in Emitted :
          /\ \E k \in (e.hdr + 1)..(e.stop - 1) : Line(k).fm.ok /\ ~Line(k).fm_match.ok
          /\ e.item[1].file_number = None
          /\ Contains(e.item[1].title, "Res. 26-007")

\* ---- C16 ----

\* the lines iteration e of parse_agenda made a record of: the section header;
\* or the line the item was entered at, its item-number line, the non-blank
\* lines of its title and the line its file number was found on
AgendaUses(e) ==
    IF e.op = "section" THEN {e.at}
    ELSE IF ~e.emitted THEN {}
    ELSE {e.at, e.hdr}
         \cup {k \in (e.hdr + 1)..(e.stop - 1) : Line(k).stripped # ""}
         \cup (IF e.item[1].file_number # None THEN {e.next - 1} ELSE {})

\* the lines iteration e of parse_minutes made a record of: the section
\* number and, when the header is split over two lines, the title line
\* peeked at; or the lines of the item's block
MinutesUses(e) ==
    IF e.op = "section"
    THEN {e.at} \cup (IF Line(e.at).sm.ok THEN {} ELSE {SkipBlank(e.at + 1)})
    ELSE IF e.op = "item" THEN e.at..(e.next - 1)
    ELSE {}

Uses(e) == IF InAgenda THEN AgendaUses(e) ELSE MinutesUses(e)

C16_UsedOnce ==
    \A a \in 1..Len(log) : \A b \in (a + 1)..Len(log) :
        /\ log[a].next <= log[b].at
        /\ Uses(log[a]) \cap Uses(log[b]) = {}

\* C16: in parse_agenda and parse_minutes the cursor never moves backwards,
\* and a line used as the header, title text, result/detail or file number of
\* one item is never used as part of another item or section
C16_NoLineUsedTwice == [][i' >= i]_vars /\ []C16_UsedOnce

\* a finished agenda scan in which an item took a title line and the next
\* item's header is the line its absorption stopped at
C16_Witness ==
    /\ pc = "done"
    /\ \E a \in 1..Len(log) : \E b \in 1..Len(log) :
          /\ log[a].emitted /\ log[b].emitted
          /\ log[a].stop > log[a].hdr + 1
          /\ log[b].at = log[a].stop
          /\ log[b].at = log[a].next

\* ---- C19 ----

\* line k is a section header as the main loop of parse_minutes recognises
\* one: number and title on one line, or a number alone whose next non-blank
\* line is a title
SectionAt(k) ==
    \/ Line(k).sm.ok
    \/ /\ Line(k).sm2.ok
       /\ SkipBlank(k + 1) <= Len(lines)
       /\ Line(SkipBlank(k + 1)).title_like

\* line k is an item header of one of the sections 3 .. 12
ItemHeaderAt(k) ==
    Line(k).im.ok /\ ItemPrefix(Line(k).im.g[1]) \in {StrOfInt(n) : n \in 3..12}

\* the first line from k on that is an item header of sections 3 .. 12 or a
\* section header (bare = FALSE), or also a number alone on its line
\* (bare = TRUE); len(lines) + 1 if none
FirstBlockEnd(k, bare) ==
    IF \E n \in k..Len(lines) : ItemHeaderAt(n) \/ SectionAt(n) \/ (bare /\ Line(n).sm2.ok)
    THEN CHOOSE n \in k..Len(lines) :
            /\ ItemHeaderAt(n) \/ SectionAt(n) \/ (bare /\ Line(n).sm2.ok)
            /\ \A b \in k..(n - 1) :
                  ~(ItemHeaderAt(b) \/ SectionAt(b) \/ (bare /\ Line(b).sm2.ok))
    ELSE Len(lines) + 1

\* the block of every accepted item ends where FirstBlockEnd says, and an
\* item header of sections 5 .. 8, 11, 12 that ends a block gives no item
BlocksEnd(bare) ==
    \A e \in ItemSteps :
        /\ e.next = FirstBlockEnd(e.at + 1, bare)
        /\ \A f \in LogEntries :
              (/\ f.at = e.next
               /\ f.op # "finish"
               /\ Line(f.at).im.ok
               /\ ItemPrefix(Line(f.at).im.g[1]) \in {"5", "6", "7", "8", "11", "12"})
              => f.op = "other_section" /\ f.item = None

\* C19: the block of an accepted item is its header line and the following
\* lines up to, not including, the first item header with prefix in 3 .. 12
\* or section header; a dotted number with another prefix does not end the
\* block; an item header with prefix 5, 6, 7, 8, 11 or 12 ends it without
\* producing an item
C19_BlockExtent == BlocksEnd(FALSE)

\* what the code does: as C19, and a number with a period alone on its line
\* ends the block whatever follows it
C19_BlockExtentWithBareNumbers == BlocksEnd(TRUE)

\* an item whose block was ended by a number alone on its line that is not a
\* section header, with a result line after it
C19_Witness ==
    /\ pc = "done_minutes"
    /\ \E e \in ItemSteps :
          /\ e.next < Len(lines)
          /\ Line(e.next).sm2.ok
          /\ ~SectionAt(e.next)
          /\ Line(e.next + 1).vm.ok
          /\ e.item[1].result = None

\* ---- C20 ----

\* no line of the block of item step e begins with a result keyword
NoResultLine(e) == \A k \in e.at..(e.next - 1) : ~Line(k).vm.ok

\* the lines of the block, stripped and joined with single spaces
BlockText(e) == Join([k \in 1..(e.next - e.at) |-> Line(e.at + k - 1).stripped], " ")

\* what the fallback has to give for a block with joined text `text`
FallbackDone(e, text, cm, cm2) ==
    IF cm.ok
    THEN /\ e.item[1].result = Some(StrLower(Group(text, cm, 1)))
         /\ e.item[1].vote_tally = Some(Group(text, cm, 2))
    ELSE IF ItemPrefix(e.item[1].item_number) = "9" /\ cm2.ok
    THEN /\ e.item[1].result = Some("approved")
         /\ e.item[1].vote_tally = Some(Group(text, cm2, 1))
    ELSE /\ e.item[1].result = None
         /\ e.item[1].vote_tally = None

\* the one-line block "10.1 T  Approved 9-0" with a roster of nine members
OneLineApproved(e) ==
    /\ e.next = e.at + 1
    /\ lines[e.at] = "10.1 T  Approved 9-0"
    /\ Len(roster) = 9

\* C20: when no line of an item's block begins with a result keyword, result
\* and vote_tally are those of an Approved, Withdrawn or Defeated followed by
\* a tally in the joined block text; failing that, and only for section
\* prefix 9, "approved" with the tally that follows a colon; failing that,
\* both are null.  The one-line block "10.1 <title>  Approved 9-0" with a
\* roster of nine gives approved, 9-0, all nine members aye, the other lists
\* empty
C20_InlineVoteFallback ==
    \A e \in ItemSteps :
        /\ NoResultLine(e) =>
              FallbackDone(e, BlockText(e), ReSearch(inline_vote_re, BlockText(e)),
                           ReSearch(claims_tally_re, BlockText(e)))
        /\ OneLineApproved(e) =>
              /\ e.item[1].result = Some("approved")
              /\ e.item[1].vote_tally = Some("9-0")
              /\ "votes" \in DOMAIN e.item[1]
              /\ e.item[1]["votes"] =
                    [aye |-> roster, nay |-> <<>>, abstain |-> <<>>, absent |-> <<>>]

\* a finished scan with the three cases: the one-line entry with its result
\* and tally, a claims entry with a bare tally, and an entry of section 3
\* with a bare tally that gets no result
C20_Witness ==
    /\ pc = "done_minutes"
    /\ \E e \in ItemSteps : OneLineApproved(e)
    /\ \E e \in ItemSteps :
          /\ NoResultLine(e)
          /\ lines[e.at] = "9.1 C: -9-0"
          /\ e.item[1].result = Some("approved")
    /\ \E e \in ItemSteps :
          /\ NoResultLine(e)
          /\ lines[e.at] = "3.1 T: 9-0"
          /\ e.item[1].result = None

\* ---- C21 ----

\* item step e is a single-line entry whose result and tally were taken from
\* a result word followed by a tally inside the line
InlineEntry(e) ==
    /\ e.next = e.at + 1
    /\ NoResultLine(e)
    /\ ReSearch(inline_vote_re, Line(e.at).stripped).ok

\* the "<result> <tally>" fragment of the line of an inline entry, its white
\* space collapsed as the title's is
Fragment(s, cm) == ReSub(spaces_re, " ", SubSeq(s, cm.s, cm.e - 1))

\* the title of the item of step e holds the fragment
TitleHoldsFragment(e) ==
    /\ e.item[1].title # None
    /\ Contains(e.item[1].title[1],
                Fragment(Line(e.at).stripped,
                         ReSearch(inline_vote_re, Line(e.at).stripped)))

\* the fragment stands after a colon in the line
AfterColon(e) == ReSearch(title_inline_vote_re, Line(e.at).stripped).ok

\* C21: the title of an item whose result and tally were taken from an inline
\* "<result> <tally>" fragment of a single-line entry does not contain that
\* fragment
C21_TitleWithoutFragment ==
    \A e \in ItemSteps : InlineEntry(e) => ~TitleHoldsFragment(e)

\* what the code does: the fragment is taken out of the title when a colon
\* stands before it, and only then
C21_TitleWithoutFragmentAfterColon ==
    \A e \in ItemSteps : InlineEntry(e) => (TitleHoldsFragment(e) <=> ~AfterColon(e))

\* a finished scan with a single-line entry "10.1 T  Approved 9-0" whose title
\* is "T Approved 9-0", and a claims entry whose title lost ": Approved-9-0"
C21_Witness ==
    /\ pc = "done_minutes"
    /\ \E e \in ItemSteps :
          /\ InlineEntry(e) /\ ~AfterColon(e)
          /\ e.item[1].result = Some("approved")
          /\ e.item[1].title = Some("T Approved 9-0")
    /\ \E e \in ItemSteps :
          /\ InlineEntry(e) /\ AfterColon(e)
          /\ e.item[1].title = Some("C")

\* ---- C22 ----

\* the result lines of the block of item step e
ResultLines(e) == {k \in e.at..(e.next - 1) : Line(k).vm.ok}

\* the first of them
FirstResultLine(e) ==
    CHOOSE v \in ResultLines(e) : \A w \in ResultLines(e) : v <= w

\* line k begins with a named-voter cue and only blank lines and such lines
\* stand between it and the result line before it
FollowsResult(e, k) ==
    /\ Line(k).cue
    /\ \E v \in ResultLines(e) :
          /\ v < k
          /\ \A b \in (v + 1)..(k - 1) : Line(b).stripped = "" \/ Line(b).cue

\* the detail of the block from line k on: the remainder of every result line
\* and every line that follows a result line with a cue, once, in input order
RECURSIVE DetailParts(_, _)
DetailParts(e, k) ==
    IF k >= e.next THEN <<>>
    ELSE (IF Line(k).vm.ok /\ Line(k).vm.g[3] # "" THEN <<StrStrip(Line(k).vm.g[3])>>
          ELSE IF FollowsResult(e, k) THEN <<Line(k).stripped>>
          ELSE <<>>)
         \o DetailParts(e, k + 1)

DetailOf(it) == IF "vote_detail" \in DOMAIN it THEN it["vote_detail"] ELSE ""

\* C22: once a result line has been found in an item's block no later line
\* contributes to the title, which is that of the lines before the result
\* line; the lines that follow a result line and begin with a named-voter cue
\* are appended to vote_detail, each once and in order
C22_NothingAfterResultInTitle ==
    \A e \in ItemSteps :
        ResultLines(e) # {} =>
            /\ e.item[1].title = ParseItem(e.at, FirstResultLine(e), roster).title
            /\ DetailOf(e.item[1]) = Join(DetailParts(e, e.at), " ")

\* an item with a title line, a result line with a detail remainder, and a
\* line naming a voter after it: the title is the title line's, the detail is
\* the remainder and the voter line
C22_Witness ==
    /\ pc = "done_minutes"
    /\ \E e \in ItemSteps :
          /\ e.next > e.at + 2
          /\ Line(e.at + 1).vm.ok /\ Line(e.at + 1).vm.g[3] # ""
          /\ Line(e.at + 2).cue
          /\ e.item[1].title = Some("T")
          /\ DetailOf(e.item[1]) = "x Councilperson Lavarro: nay"
          /\ e.item[1]["votes"].nay = <<"Lavarro">>

\* ---- C23 ----

\* the lines of the block of item step e that hold a file number
FileNumberLines(e) == {k \in e.at..(e.next - 1) : Line(k).fm.ok}

\* C23: an emitted item's file_number is non-null if and only if some line of
\* its block contains a file number, before or after the result line and
\* whether or not a result was detected
C23_FileNumberIffInBlock ==
    \A e \in ItemSteps :
        (e.item[1].file_number # None) <=> (FileNumberLines(e) # {})

\* a finished scan with an item whose only file number stands after its
\* result line
C23_Witness ==
    /\ pc = "done_minutes"
    /\ \E e \in ItemSteps :
          /\ \E k \in FileNumberLines(e) : \E v \in ResultLines(e) : v < k
          /\ FileNumberLines(e) \cap {k \in e.at..(e.next - 1) :
                                        \E v \in ResultLines(e) : k < v} = {}
          /\ e.item[1].result # None
          /\ e.item[1].file_number # None

\* ---------------------------------------------------------------------------
\* The functions of a title, called on their own: classify_section on a
\* section's number and title, the two title clean-ups on a joined title.

\* the words a section title is made of: every keyword of classify_section,
\* in the capitals a section header is written in, and a word that is none
SectionWords ==
    {"FIRST READING", "SECOND READING", "HEARING", "CLAIMS", "RESOLUTION",
     "PUBLIC REQUEST", "PETITION", "COMMUNICATION", "OFFICERS", "REPORTS",
     "DIRECTORS", "REGULAR MEETING", "RECEPTION", "DEFERRED", "TABLED",
     "ADJOURNMENT", "AB"}

\* section titles of one word and of two
SectionTitles ==
    SectionWords \cup {a \o " " \o b : a \in SectionWords, b \in SectionWords}

SectionNumbers == {3, 4, 10}

\* what a joined title may carry after its text: file references with and
\* without number and "Pdf", a withdrawal mark, a vote after a colon, text
TitleParts ==
    {"", " Ord. 26-006 Pdf", " Res.26-007 - Pdf", " Withdrawn - Pdf", " Ord.",
     ": Approved 9-0", "  x"}

JoinedTitles ==
    {"T" \o a \o b \o c : a \in TitleParts, b \in TitleParts, c \in TitleParts}

InitCalls ==
    /\ \/ /\ pc = "call_classify_section"
          /\ call_number \in SectionNumbers
          /\ call_text \in SectionTitles
       \/ /\ pc \in {"call_ranged_title", "call_clean_title"}
          /\ call_number = 0
          /\ call_text \in JoinedTitles
    /\ call_result = None
    /\ InitScanIdle
    /\ roster = <<>> /\ tally_str = "" /\ detail_text = "" /\ votes = None
    /\ raised = FALSE
    /\ InitSplitIdle
    /\ full_text = ""

Return(to, value) ==
    /\ call_result' = Some(value)
    /\ pc' = to
    /\ UNCHANGED <<call_number, call_text>>
    /\ UNCHANGED scanVars
    /\ UNCHANGED callVars
    /\ UNCHANGED splitVars
    /\ UNCHANGED full_text

CallClassifySection ==
    /\ pc = "call_classify_section"
    /\ Return("returned_section_type", classify_section(call_number, call_text))

CallRangedTitle ==
    /\ pc = "call_ranged_title"
    /\ Return("returned_ranged_title", RangedTitle(call_text))

CallCleanTitle ==
    /\ pc = "call_clean_title"
    /\ Return("returned_clean_title", CleanTitle(call_text))

NextCalls ==
    \/ CallClassifySection
    \/ CallRangedTitle
    \/ CallCleanTitle

SpecCalls == InitCalls /\ [][NextCalls]_vars

\* ---- C24 ----
\* the rules of classify_section in their order: keywords and category
Rules ==
    << <<{"first reading"}, "ordinance_first_reading">>,
       <<{"second reading", "hearing"}, "ordinance_second_reading">>,
       <<{"claims"}, "claims">>,
       <<{"resolution"}, "resolutions">>,
       <<{"public request"}, "public_hearing">>,
       <<{"petition", "communication"}, "petitions_communications">>,
       <<{"officers"}, "officers_communications">>,
       <<{"reports", "directors"}, "reports_of_directors">>,
       <<{"regular meeting"}, "regular_meeting">>,
       <<{"reception"}, "reception_bid">>,
       <<{"deferred", "tabled"}, "deferred">>,
       <<{"adjournment"}, "adjournment">> >>

\* the category of the first rule from k on with a keyword in t
RECURSIVE FirstRule(_, _)
FirstRule(t, k) ==
    IF k > Len(Rules) THEN "other"
    ELSE IF \E w \in Rules[k][1] : Contains(t, w) THEN Rules[k][2]
    ELSE FirstRule(t, k + 1)

BothKeywords(t) == Contains(t, "first reading") /\ Contains(t, "resolution")

OnePart == {"T" \o a : a \in TitleParts}

\* C25: a title clean-up applied to its own output returns it unchanged: that
\* of parse_agenda on the title of a ranged item, that of parse_minutes.
C25_CleanUpIdempotent ==
    /\ pc = "returned_ranged_title" => RangedTitle(call_result[1]) = call_result[1]
    /\ pc = "returned_clean_title" => CleanTitle(call_result[1]) = call_result[1]

\* C25, on titles with one part at most after their text: the clean-ups
\* applied to their own output return it unchanged.
C25_CleanUpIdempotentOnOnePart ==
    call_text \in OnePart => C25_CleanUpIdempotent

\* C25 witness: a title with one file reference has been cleaned by either
\* clean-up, and cleaning the result again changes nothing.
C25_Witness ==
    /\ pc \in {"returned_ranged_title", "returned_clean_title"}
    /\ call_text = "T Ord. 26-006 Pdf"
    /\ call_result = Some("T")
    /\ C25_CleanUpIdempotentOnOnePart

\* ---- C26 ----
\* the pages of the packet, counted from 1, that are searched for the file
\* number of item p: the first three of its range at most
FirstPages(p) == p.page_start[1]..Min(p.page_end[1], p.page_start[1] + 2)

\* an item with a file number that none of its first pages holds, spacing
\* apart
Unfound(p) ==
    /\ p.file_number # None
    /\ \A n \in FirstPages(p) :
          ~Contains(NoBlanks(packet[n]), NoBlanks(p.file_number[1]))

UnfoundInRange(p) == InRange(p) /\ Unfound(p[1])

IsNotFoundWarning(w) == Contains(w, "not found in pages")

\* the iteration of an item whose range is in bounds: one warning more when
\* its file number is not in its first pages, none otherwise; one file and
\* one manifest entry more, for this item and its range; on to the next item
C26_ExtractStep ==
    (SplitLoop /\ InRange(items_to_split[item_index])) =>
        /\ warnings' = IF Unfound(Item) THEN Append(warnings, NotFoundWarning(Item))
                       ELSE warnings
        /\ Len(files') = Len(files) + 1
        /\ Len(manifest_entries') = Len(manifest_entries) + 1
        /\ manifest_entries'[Len(manifest_entries')].item_number = Item.item_number
        /\ manifest_entries'[Len(manifest_entries')].page_start = Item.page_start[1]
        /\ manifest_entries'[Len(manifest_entries')].page_end = Item.page_end[1]
        /\ item_index' = item_index + 1
        /\ pc' = "split_items"

\* the warnings of a file number not found are those of the items in bounds
\* whose first pages do not hold their file number, one each and in order
C26_Warned ==
    pc \in {"split_items", "split_done"} =>
        /\ SelectSeq(warnings, IsNotFoundWarning)
             = [k \in 1..Len(SelectSeq(Processed, UnfoundInRange)) |->
                   NotFoundWarning(SelectSeq(Processed, UnfoundInRange)[k][1])]
        /\ pc = "split_done" => item_index = Len(items_to_split) + 1

\* C26: an item in bounds whose first pages (three at most, from page_start)
\* do not hold its file number gets exactly one warning and is extracted and
\* listed in the manifest; an item without file number is extracted without
\* warning; the items after it are processed in either case.
C26_UnfoundWarnedAndExtracted == [][C26_ExtractStep]_vars /\ []C26_Warned

\* C26 witness: a finished batch of two items in bounds: the first pages of
\* item 3.1 do not hold its file number, item 4.12 has no file number; one
\* warning, for 3.1, and both are listed after the agenda.
C26_Witness ==
    /\ pc = "split_done"
    /\ Len(items_to_split) = 2
    /\ items_to_split[1][1].item_number = "3.1"
    /\ UnfoundInRange(items_to_split[1])
    /\ FirstPages(items_to_split[1][1]) # {}
    /\ InRange(items_to_split[2])
    /\ \E n \in 1..Len(packet) : packet[n] # ""
    /\ warnings = <<NotFoundWarning(items_to_split[1][1])>>
    /\ Len(files) = 3
    /\ Len(manifest_entries) = 3
    /\ manifest_entries[2].item_number = "3.1"
    /\ manifest_entries[3].item_number = "4.12"

\* ---- C27 ----
\* a section-header line, or an item-header line: a header with a page range
\* or an item number of section sec
HeaderLine(k, sec) ==
    \/ Line(k).sm.ok
    \/ Line(k).ma.ok \/ Line(k).mb.ok \/ Line(k).mc.ok
    \/ Line(k).mi.ok /\ ItemPrefix(Line(k).mi.g[1]) = StrOfInt(sec)
    \/ Line(k).mi2.ok /\ ItemPrefix(Line(k).mi2.g[1]) = StrOfInt(sec)

\* the first header line from k on, len(lines) + 1 if none
NextHeader(k, sec) ==
    IF \E n \in k..Len(lines) : HeaderLine(n, sec)
    THEN CHOOSE n \in k..Len(lines) :
            HeaderLine(n, sec) /\ \A b \in k..(n - 1) : ~HeaderLine(b, sec)
    ELSE Len(lines) + 1

\* the iterations that look ahead for a file number after the title
LooksAhead == {e \in Emitted : e.op \in {"pattern_a", "pattern_b", "pattern_c"}}

\* the line the file number of the item of e was taken from: the one before
\* the line the cursor was left at
FileNumberLine(e) == e.next - 1

\* C27: the look-ahead for a file number never moves the cursor past a
\* section header or an item header: the cursor is left at or before the
\* first header from the line absorption stopped at, on that line when
\* absorption stopped at a header, and a file number is taken from a line
\* before that header.
C27_LookaheadStopsAtHeader ==
    \A e \in LooksAhead :
        /\ e.next <= NextHeader(e.stop, e.sec)
        /\ e.item[1].file_number # None => FileNumberLine(e) < NextHeader(e.stop, e.sec)

\* what the code does: the file number is looked for in the three lines from
\* the one absorption stopped at, headers or not, and the cursor left after
\* the first that holds one.
C27_LookaheadOfThreeLines ==
    \A e \in LooksAhead :
        IF \E j \in e.stop..Min(e.stop + 2, Len(lines)) : Line(j).fm.ok
        THEN /\ e.item[1].file_number # None
             /\ Line(FileNumberLine(e)).fm.ok
             /\ FileNumberLine(e) \in e.stop..Min(e.stop + 2, Len(lines))
             /\ \A j \in e.stop..(FileNumberLine(e) - 1) : ~Line(j).fm.ok
        ELSE e.item[1].file_number = None /\ e.next = e.stop

\* C27 witness: absorption stopped at the header of the next item, the file
\* number was taken from a line after that header and the cursor left past
\* it: the header was never classified.
C27_Witness ==
    /\ pc = "done"
    /\ \E e \in LooksAhead :
          /\ e.stop <= Len(lines)
          /\ HeaderLine(e.stop, e.sec)
          /\ e.next > e.stop + 1
          /\ e.item[1].file_number # None
          /\ \A x \in LogEntries : x.at # e.stop

\* ---- C28 ----
\* the first non-blank line from k on, len(lines) + 1 if none
NextNonBlank(k) ==
    IF \E n \in k..Len(lines) : Line(n).stripped # ""
    THEN CHOOSE n \in k..Len(lines) :
            Line(n).stripped # "" /\ \A b \in k..(n - 1) : Line(b).stripped = ""
    ELSE Len(lines) + 1

\* the iterations that gave a range-only line up: pattern C without an item
Abandoned == {e \in LogEntries : e.op = "pattern_c" /\ ~e.emitted}

\* a line that some iteration of the main loop was entered at
Classified(k) == \E x \in LogEntries : x.at = k

\* C28: an abandoned range-only line consumes the range line and the blank
\* lines after it and no more: the cursor is left at the next non-blank
\* line, which the main loop classifies.
C28_AbandonKeepsNextLine ==
    \A e \in Abandoned :
        /\ e.next = NextNonBlank(e.at + 1)
        /\ (pc = "done" /\ e.next <= Len(lines)) => Classified(e.next)

\* what the code does: the cursor is left one line after the next non-blank
\* line, at the end of the input if there is none.
C28_AbandonSkipsNextLine ==
    \A e \in Abandoned :
        e.next = Min(NextNonBlank(e.at + 1) + 1, Len(lines) + 1)

\* C28 witness: the range-only line of section 3 was followed by the header
\* of section 4, which was never classified: no section 4 in the output.
C28_Witness ==
    /\ pc = "done"
    /\ \E e \in Abandoned :
          /\ e.sec = 3
          /\ e.at + 1 <= Len(lines)
          /\ Line(e.at + 1).sm.ok
          /\ Line(e.at + 1).sm.g[1] = "4"
          /\ ~Classified(e.at + 1)
    /\ \A k \in 1..Len(sections) : sections[k].number # 4

\* ---- C29 ----
\* the lists of the breakdown that hold the name n
ListsOf(n) == {l \in {"aye", "nay", "abstain", "absent"} : n \in SeqRange(V[l])}

\* every name listed that is m in some letter case is m as the roster spells it
RosterSpelling(m) ==
    \A l \in {"aye", "nay", "abstain", "absent"} : \A n \in SeqRange(V[l]) :
        StrLower(n) = StrLower(m) => n = m

\* each roster member is in exactly one of the four lists
InOneList == \A m \in SeqRange(roster) : Cardinality(ListsOf(m)) = 1

\* C29 as stated: each roster member is in at least one of the four lists and
\* never in two different lists; a member named in the detail, in any letter
\* case, is listed under the roster's spelling and is in neither aye nor
\* absent.
C29_NamedMembersNotAye ==
    Returned =>
        /\ InOneList
        /\ \A m \in SeqRange(roster) :
              NamedInDetail(m) => RosterSpelling(m) /\ ListsOf(m) \subseteq {"nay", "abstain"}

\* C29, for the details that say nay or abstain: each roster member is in
\* exactly one of the four lists; a member named in a detail that contains
\* "nay" or "abstain" is listed in nay or abstain under the roster's
\* spelling, neither aye nor absent; a member named in a detail with neither
\* word is left among aye and absent.
C29_ClassifiedMembersNotAye ==
    Returned =>
        /\ InOneList
        /\ \A m \in SeqRange(roster) :
              NamedInDetail(m) =>
                 /\ RosterSpelling(m)
                 /\ IF SaysNay \/ SaysAbstain
                    THEN ListsOf(m) \subseteq {"nay", "abstain"}
                    ELSE ListsOf(m) \subseteq {"aye", "absent"}

\* C29 witness: the detail names Lavarro in capitals as a nay voter; the
\* breakdown lists "Lavarro" under nay and nowhere else.
C29_Witness ==
    /\ Returned
    /\ Contains(detail_text, "LAVARRO")
    /\ SaysNay
    /\ "Lavarro" \in SeqRange(roster)
    /\ ListsOf("Lavarro") = {"nay"}
    /\ ListsOf("LAVARRO") = {}

\* ---- C30 ----
\* the members the tally accounts for: A + N + B
Accounted == TallyA + TallyN + TallyB

\* C30: the absent list is non-empty only when the tally accounts for fewer
\* members than the roster has; when A + N + B >= |R| it is empty, whatever
\* the detail.
C30_AbsentOnlyWhenShort ==
    Returned =>
        /\ V.absent # <<>> => Accounted < Len(roster)
        /\ Accounted >= Len(roster) => V.absent = <<>>

\* C30 witness: a tally of nays and abstentions that accounts for the whole
\* roster, with a detail that names a nay voter, has returned an empty
\* absent list; the members not named are all listed as aye.
C30_Witness ==
    /\ Returned
    /\ TallyA = 0
    /\ TallyN > 0
    /\ TallyB > 0
    /\ Accounted >= Len(roster)
    /\ detail_text # ""
    /\ SaysNay
    /\ Len(V.aye) > TallyA
    /\ V.absent = <<>>

\* ---- C31 ----
\* the manifest as written
M == manifest[1]

\* the sum of the page_count of the entries from k on
RECURSIVE PageCountFrom(_, _)
PageCountFrom(entries, k) ==
    IF k > Len(entries) THEN 0
    ELSE entries[k].page_count + PageCountFrom(entries, k + 1)

\* an entry whose pages are pages of the packet, in order, at least one
ProperRange(en) ==
    /\ 1 <= en.page_start
    /\ en.page_start <= en.page_end
    /\ en.page_end <= M.packet_pages
    /\ en.page_count >= 1

\* the counts of the manifest: page_count of every entry is page_end -
\* page_start + 1, files_created is the number of entries, total_pages_split
\* is the sum of the entries' page_count
ManifestCounts ==
    /\ \A k \in 1..Len(M.items) :
          M.items[k].page_count = M.items[k].page_end - M.items[k].page_start + 1
    /\ M.files_created = Len(M.items)
    /\ M.total_pages_split = PageCountFrom(M.items, 1)

\* C31: in the manifest written, every entry has 1 <= page_start <= page_end
\* <= packet_pages and page_count = page_end - page_start + 1 >= 1;
\* files_created is the number of entries and total_pages_split the sum of
\* the entries' page_count.
C31_ManifestInvariants ==
    pc = "split_done" =>
        /\ \A k \in 1..Len(M.items) : ProperRange(M.items[k])
        /\ ManifestCounts

\* what the code keeps: the counts, and for the entries of items the bounds
\* check alone: page_start >= 1 and page_end <= packet_pages.
C31_ManifestCountsAndBounds ==
    pc = "split_done" =>
        /\ ManifestCounts
        /\ \A k \in 2..Len(M.items) :
              1 <= M.items[k].page_start /\ M.items[k].page_end <= M.packet_pages

\* C31 witness: a manifest with the entry of an item whose range is reversed:
\* page_start and page_end are pages of the packet, page_count is not positive
\* and total_pages_split is less than the pages of the agenda.
C31_Witness ==
    /\ pc = "split_done"
    /\ \E k \in 2..Len(M.items) :
          /\ M.items[k].page_start > M.items[k].page_end
          /\ M.items[k].page_end >= 1
          /\ M.items[k].page_count < 1
    /\ M.total_pages_split < agenda_pages

\* ---- C32 ----
\* the lines of the text read, before any is cut off
Raw == SplitLines(full_text)

\* the first line that contains "Reviewed and found to be correct", and the
\* first "12. ADJOURNMENT" header; 0 if there is none
ReviewedAt ==
    IF \E k \in 1..Len(Raw) : MinutesMatch[Raw[k]].reviewed
    THEN CHOOSE k \in 1..Len(Raw) :
            /\ MinutesMatch[Raw[k]].reviewed
            /\ \A b \in 1..(k - 1) : ~MinutesMatch[Raw[b]].reviewed
    ELSE 0
AdjournmentAt ==
    IF \E k \in 1..Len(Raw) : MinutesMatch[Raw[k]].adjournment
    THEN CHOOSE k \in 1..Len(Raw) :
            /\ MinutesMatch[Raw[k]].adjournment
            /\ \A b \in 1..(k - 1) : ~MinutesMatch[Raw[b]].adjournment
    ELSE 0

\* the cut-offs of the document: the line of the review, the tenth line after
\* the adjournment header, and the end of the text
CutOffs ==
    {Len(Raw) + 1}
    \cup (IF ReviewedAt = 0 THEN {} ELSE {ReviewedAt})
    \cup (IF AdjournmentAt = 0 THEN {} ELSE {AdjournmentAt + 10})

\* the cut-off that comes first in the document
FirstCutOff == CHOOSE c \in CutOffs : \A d \in CutOffs : c <= d

\* the cut-off of the line that comes first in the document: that of the
\* review if its line stands before the header, else that of the header
CutOffOfFirstLine ==
    IF ReviewedAt # 0 /\ (AdjournmentAt = 0 \/ ReviewedAt < AdjournmentAt)
    THEN ReviewedAt
    ELSE IF AdjournmentAt # 0 THEN Min(AdjournmentAt + 10, Len(Raw) + 1)
    ELSE Len(Raw) + 1

\* the lines scanned are the first lines of the text; every item, with its
\* result and its file number, comes from lines before c; and when the scan
\* is over every line before c has been gone through
CutAt(c) ==
    /\ lines = SubSeq(Raw, 1, Len(lines))
    /\ \A e \in ItemSteps : e.next <= c
    /\ pc = "done_minutes" =>
          \A k \in 1..(c - 1) : \E e \in LogEntries : e.at <= k /\ k < e.next

\* C32: no item, result or file number comes from a line at or after the
\* first line containing "Reviewed and found to be correct", nor from a line
\* ten or more lines after the first "12. ADJOURNMENT" header, whichever
\* cut-off comes first in the document; the lines before it are all scanned.
C32_NothingAfterCutOff == InMinutes => CutAt(FirstCutOff)

\* what the code does: the cut-off is that of the line that comes first, the
\* line of the review or the adjournment header; after a header the line of
\* the review cuts nothing off.
C32_NothingAfterCutOffOfFirstLine == InMinutes => CutAt(CutOffOfFirstLine)

\* C32 witness: the line of the review stands less than ten lines after the
\* adjournment header, and an item with a result was taken from a line
\* after it.
C32_Witness ==
    /\ pc = "done_minutes"
    /\ AdjournmentAt # 0
    /\ ReviewedAt > AdjournmentAt
    /\ \E e \in ItemSteps :
          /\ e.at > ReviewedAt
          /\ e.item[1].result # None

====
